---- MODULE Spec2Model ----
(***************************************************************************)
(* A model of the teams-ai-agent GitHub MCP middleware: the MCP client,    *)
(* the GitHubMcpService tool catalog and executor, the credential store    *)
(* and the two chat message handlers.                                      *)
(*                                                                         *)
(* Every `await` of the source is a scheduling point.  A process is a      *)
(* stack of suspended async frames; a frame is named by the source line    *)
(* of the await it is suspended at ("listTools:39").  sig says what the    *)
(* innermost frame waits for: "io" (a request is in flight), or "ok" /     *)
(* "err" (the awaited promise has settled and the frame can resume).       *)
(***************************************************************************)
EXTENDS Integers, Sequences, FiniteSets, TLC

VARIABLES
  connected,        \* MCPClient.connected, per client instance
  availableTools,   \* GitHubMcpService.availableTools, per instance
  toolsLoaded,      \* GitHubMcpService.toolsLoaded, per instance
  wire,             \* per instance: the requests issued to the MCP SDK client, and their outcomes
  stk,              \* per process: the suspended async frames, outermost first
  sig,              \* per process: "io", "ok" or "err"
  rv,               \* per process: the value (or error) the last settled promise carries
  op,               \* per process: the public method its caller invoked last
  inst,             \* per process: the service/client instance it works on
  nOps,             \* number of calls made so far: public methods called, messages handled
  env,              \* process.env: GITHUB_DEFAULT_OWNER and GITHUB_DEFAULT_REPO
  tokenStore,       \* tokenStore: Map<string, GitHubTokenInfo>
  now,              \* Date.now(), in days (in minutes in the OAuth routes)
  lastCheck,        \* the result of the latest validity check, if any
  hnd,              \* the locals of the message handler that is running or ran last
  sent,             \* the replies that handler has handed to context.sendActivity
  input,            \* the input a function is examined on
  output,           \* what the function returned for it, once applied
  pendingOAuthStates,  \* pendingOAuthStates: Map<string, { userId, timestamp }>
  oauthLog          \* what the OAuth routes did, in order: responses, requests to github.com, writes to the store

clientVars == <<connected, availableTools, toolsLoaded, wire>>
procVars == <<stk, sig, rv, op, inst, nOps>>
storeVars == <<tokenStore, now, lastCheck>>
handlerVars == <<hnd, sent>>
pureVars == <<input, output>>
oauthVars == <<pendingOAuthStates, oauthLog>>
vars == <<connected, availableTools, toolsLoaded, wire, stk, sig, rv, op, inst, nOps, env,
          tokenStore, now, lastCheck, hnd, sent, input, output, pendingOAuthStates, oauthLog>>

(***************************************************************************)
(* Bounds                                                                  *)
(***************************************************************************)
\* public method calls per behaviour
MaxOps == 4
\* public method calls per behaviour when two callers run at once
MaxConcurrentOps == 2
\* the clock runs from day 0 to this day
MaxNow == 31
\* messages handled per behaviour
MaxMessages == 1
\* requests to the OAuth routes per behaviour
MaxRequests == 3
\* the longest list handed to a list template
MaxListLength == 11
\* in the OAuth routes the clock runs from minute 0 to this minute
MaxMinutes == 15

Procs == {"p1", "p2"}

(***************************************************************************)
(* Text: a string whose characters the code inspects is a sequence of      *)
(* one-character strings.                                                  *)
(***************************************************************************)
s_get_issue == <<"g", "e", "t", "_", "i", "s", "s", "u", "e">>
s_list_repositories == <<"l", "i", "s", "t", "_", "r", "e", "p", "o", "s", "i", "t", "o", "r", "i", "e", "s">>
s_search_code == <<"s", "e", "a", "r", "c", "h", "_", "c", "o", "d", "e">>
s_octocat == <<"o", "c", "t", "o", "c", "a", "t">>
s_hello_world == <<"h", "e", "l", "l", "o", "-", "w", "o", "r", "l", "d">>

(***************************************************************************)
(* Values carried by settled promises                                      *)
(***************************************************************************)
Undefined == [t |-> "undefined", v |-> <<>>]
\* an Error whose message is the concatenation of the parts of m
Err(m) == [t |-> "error", v |-> m]
\* error instanceof Error ? error.message : 'Unknown error'
Message(e) == IF e.t = "error" THEN e.v ELSE <<"Unknown error">>

\* what the transport can fail with
TransportError == Err(<<"network">>)

\* an async function that returned (resolved) without suspending
Return(v) == [frames |-> <<>>, sig |-> "ok", rv |-> v]
\* an async function that threw (rejected)
Throw(e) == [frames |-> <<>>, sig |-> "err", rv |-> e]
\* `await <call>` at the given site: the frame is suspended on the callee's promise
Await(site, arg, e) == [frames |-> <<[site |-> site, arg |-> arg]>> \o e.frames, sig |-> e.sig, rv |-> e.rv]
\* `await <request to a collaborator>` at the given site
IoWait(site, arg) == [frames |-> <<[site |-> site, arg |-> arg]>>, sig |-> "io", rv |-> Undefined]

(***************************************************************************)
(* MCPClient (mcpClient.ts)                                                *)
(***************************************************************************)
connect_unguarded(i) == IoWait("connect:29", <<>>)

\* connect(): `if (!this.connected) await this.client.connect(this.transport)`
connect(i) ==
  IF ~connected[i] THEN IoWait("connect:29", <<>>) ELSE Return(Undefined)

ensureConnected_skip(i) == Return(Undefined)

\* ensureConnected(): `if (!this.connected) await this.connect()`
ensureConnected(i) ==
  IF ~connected[i] THEN Await("ensureConnected:57", <<>>, connect(i)) ELSE Return(Undefined)

\* listTools(), up to `await this.ensureConnected()`
listTools(i) == Await("listTools:39", <<>>, ensureConnected(i))

\* callTool(toolName, args), up to `await this.ensureConnected()`
callTool(i, toolName) == Await("callTool:48", toolName, ensureConnected(i))

\* connect(): `catch (error) { throw new Error(...) }`
connect_catch(e) == Throw(Err(<<"Failed to connect to GitHub MCP server">> \o Message(e)))

\* listTools(): `catch (error) { throw new Error(...) }`
listTools_catch(e) == Throw(Err(<<"Failed to list tools">> \o Message(e)))

\* callTool(): `catch (error) { throw new Error(...) }`
callTool_catch(e) == Throw(Err(<<"Failed to call tool">> \o Message(e)))

disconnect_rethrow(e) == Throw(Err(<<"Failed to disconnect">> \o Message(e)))

\* disconnect(): `catch (error) { console.warn(...) }`
disconnect_catch(e) == Return(Undefined)

\* disconnect(): `if (this.connected) await this.client.close()`
disconnect(i) ==
  IF connected[i] THEN IoWait("disconnect:64", <<>>) ELSE Return(Undefined)

\* the request a suspended call has put on the wire, if any
Issued(e) ==
  IF e.sig # "io" THEN <<>>
  ELSE LET f == e.frames[Len(e.frames)] IN
       CASE f.site = "connect:29" -> <<[ev |-> "connect", arg |-> <<>>]>>
         [] f.site = "listTools:40" -> <<[ev |-> "list", arg |-> <<>>]>>
         [] f.site = "callTool:49" -> <<[ev |-> "call", arg |-> f.arg]>>
         [] f.site = "disconnect:64" -> <<[ev |-> "close", arg |-> <<>>]>>
         [] OTHER -> <<>>

Top(p) == stk[p][Len(stk[p])]
Front(s) == SubSeq(s, 1, Len(s) - 1)
Idle(p) == stk[p] = <<>>

\* process p goes on as effect e says, its frames below `base` kept; `done` are
\* the outcomes observed on the wire in this step
Go(p, base, e, done) ==
  /\ stk' = [stk EXCEPT ![p] = base \o e.frames]
  /\ sig' = [sig EXCEPT ![p] = e.sig]
  /\ rv' = [rv EXCEPT ![p] = e.rv]
  /\ wire' = [wire EXCEPT ![inst[p]] = @ \o done \o Issued(e)]

\* the caller of a public method
Invoke(p, name, e) ==
  /\ Idle(p)
  /\ nOps < MaxOps
  /\ nOps' = nOps + 1
  /\ op' = [op EXCEPT ![p] = name]
  /\ Go(p, <<>>, e, <<>>)
  /\ UNCHANGED <<inst, env, oauthVars, pureVars, storeVars, handlerVars>>

At(p, site, s) == stk[p] # <<>> /\ Top(p).site = site /\ sig[p] = s
Settled(p, site) == stk[p] # <<>> /\ Top(p).site = site /\ sig[p] \in {"ok", "err"}

Outcome(ev) == <<[ev |-> ev, arg |-> <<>>]>>


(***************************************************************************)
(* What the remote MCP server can answer                                   *)
(***************************************************************************)
\* a tool as the server lists it; description "" stands for a missing one
RawTool(name, description) == [name |-> name, description |-> description]
Catalog1 == <<RawTool(s_get_issue, "Get an issue"), RawTool(s_list_repositories, ""), RawTool(s_search_code, "Search code")>>
Listing(ts) == [t |-> "listing", v |-> ts]
\* a response without a `tools` array
Malformed == [t |-> "malformed", v |-> <<>>]
ListResponses == {Listing(<<>>), Listing(Catalog1), Malformed}

ToolNames == {s_get_issue, s_list_repositories}

TextItem(text) == [type |-> "text", text |-> text]
McpResult(items) == [t |-> "mcp", v |-> items]
Null == [t |-> "null", v |-> <<>>]
ToolResults == {McpResult(<<TextItem("issue 68")>>), Null}

(***************************************************************************)
(* MCPClient: the steps                                                    *)
(***************************************************************************)
\* a caller calls connect()
CallConnect(p) ==
  /\ Invoke(p, "connect", connect(inst[p]))
  /\ UNCHANGED <<connected, availableTools, toolsLoaded>>

\* a caller calls listTools()
CallListTools(p) ==
  /\ Invoke(p, "listTools", listTools(inst[p]))
  /\ UNCHANGED <<connected, availableTools, toolsLoaded>>

\* a caller calls callTool(toolName, args)
CallCallTool(p) ==
  \E toolName \in ToolNames :
    /\ Invoke(p, "callTool", callTool(inst[p], toolName))
    /\ UNCHANGED <<connected, availableTools, toolsLoaded>>

\* a caller calls disconnect()
CallDisconnect(p) ==
  /\ Invoke(p, "disconnect", disconnect(inst[p]))
  /\ UNCHANGED <<connected, availableTools, toolsLoaded>>

\* `await this.client.connect(this.transport)` resolves: `this.connected = true`
ConnectResolves(p) ==
  /\ At(p, "connect:29", "io")
  /\ connected' = [connected EXCEPT ![inst[p]] = TRUE]
  /\ Go(p, Front(stk[p]), Return(Undefined), Outcome("connect_ok"))
  /\ UNCHANGED <<availableTools, toolsLoaded, op, inst, nOps, env, oauthVars, pureVars, storeVars, handlerVars>>

\* `await this.client.connect(this.transport)` rejects
ConnectRejects(p) ==
  /\ At(p, "connect:29", "io")
  /\ Go(p, Front(stk[p]), connect_catch(TransportError), Outcome("connect_err"))
  /\ UNCHANGED <<connected, availableTools, toolsLoaded, op, inst, nOps, env, oauthVars, pureVars, storeVars, handlerVars>>

\* ensureConnected() resumes after `await this.connect()`
ResumeEnsureConnected(p) ==
  /\ Settled(p, "ensureConnected:57")
  /\ Go(p, Front(stk[p]), IF sig[p] = "ok" THEN Return(Undefined) ELSE Throw(rv[p]), <<>>)
  /\ UNCHANGED <<connected, availableTools, toolsLoaded, op, inst, nOps, env, oauthVars, pureVars, storeVars, handlerVars>>

\* listTools() resumes after `await this.ensureConnected()`:
\* `return await this.client.listTools()`
ResumeListTools(p) ==
  /\ Settled(p, "listTools:39")
  /\ Go(p, Front(stk[p]),
        IF sig[p] = "ok" THEN IoWait("listTools:40", <<>>) ELSE listTools_catch(rv[p]), <<>>)
  /\ UNCHANGED <<connected, availableTools, toolsLoaded, op, inst, nOps, env, oauthVars, pureVars, storeVars, handlerVars>>

\* `await this.client.listTools()` resolves
ListResolves(p) ==
  /\ At(p, "listTools:40", "io")
  /\ \E resp \in ListResponses :
       Go(p, Front(stk[p]), Return(resp), Outcome("list_ok"))
  /\ UNCHANGED <<connected, availableTools, toolsLoaded, op, inst, nOps, env, oauthVars, pureVars, storeVars, handlerVars>>

\* `await this.client.listTools()` rejects
ListRejects(p) ==
  /\ At(p, "listTools:40", "io")
  /\ Go(p, Front(stk[p]), listTools_catch(TransportError), Outcome("list_err"))
  /\ UNCHANGED <<connected, availableTools, toolsLoaded, op, inst, nOps, env, oauthVars, pureVars, storeVars, handlerVars>>

\* callTool() resumes after `await this.ensureConnected()`:
\* `return await this.client.callTool({ name: toolName, arguments: args })`
ResumeCallTool(p) ==
  /\ Settled(p, "callTool:48")
  /\ Go(p, Front(stk[p]),
        IF sig[p] = "ok" THEN IoWait("callTool:49", Top(p).arg) ELSE callTool_catch(rv[p]), <<>>)
  /\ UNCHANGED <<connected, availableTools, toolsLoaded, op, inst, nOps, env, oauthVars, pureVars, storeVars, handlerVars>>

\* `await this.client.callTool(...)` resolves
CallResolves(p) ==
  /\ At(p, "callTool:49", "io")
  /\ \E result \in ToolResults :
       Go(p, Front(stk[p]), Return(result), Outcome("call_ok"))
  /\ UNCHANGED <<connected, availableTools, toolsLoaded, op, inst, nOps, env, oauthVars, pureVars, storeVars, handlerVars>>

\* `await this.client.callTool(...)` rejects (transport, protocol or remote tool failure)
CallRejects(p) ==
  /\ At(p, "callTool:49", "io")
  /\ Go(p, Front(stk[p]), callTool_catch(TransportError), Outcome("call_err"))
  /\ UNCHANGED <<connected, availableTools, toolsLoaded, op, inst, nOps, env, oauthVars, pureVars, storeVars, handlerVars>>

\* `await this.client.close()` resolves: `this.connected = false`
CloseResolves(p) ==
  /\ At(p, "disconnect:64", "io")
  /\ connected' = [connected EXCEPT ![inst[p]] = FALSE]
  /\ Go(p, Front(stk[p]), Return(Undefined), Outcome("close_ok"))
  /\ UNCHANGED <<availableTools, toolsLoaded, op, inst, nOps, env, oauthVars, pureVars, storeVars, handlerVars>>

\* `await this.client.close()` rejects
CloseRejects(p) ==
  /\ At(p, "disconnect:64", "io")
  /\ Go(p, Front(stk[p]), disconnect_catch(TransportError), Outcome("close_err"))
  /\ UNCHANGED <<connected, availableTools, toolsLoaded, op, inst, nOps, env, oauthVars, pureVars, storeVars, handlerVars>>

\* the steps inside MCPClient, whoever called
ClientStep(p) ==
  \/ ConnectResolves(p)
  \/ ConnectRejects(p)
  \/ ResumeEnsureConnected(p)
  \/ ResumeListTools(p)
  \/ ListResolves(p)
  \/ ListRejects(p)
  \/ ResumeCallTool(p)
  \/ CallResolves(p)
  \/ CallRejects(p)

(***************************************************************************)
(* One MCPClient, its public methods called one after another              *)
(***************************************************************************)
\* `new MCPClient(token)`: `private connected: boolean = false`
InitInstances ==
  /\ connected = [i \in Procs |-> FALSE]
  /\ availableTools = [i \in Procs |-> <<>>]
  /\ toolsLoaded = [i \in Procs |-> FALSE]
  /\ wire = [i \in Procs |-> <<>>]

\* no function is being examined
NoInput == [fn |-> "none", toolName |-> "", result |-> Undefined]
Pending == [t |-> "pending", v |-> <<>>]
InitPure ==
  /\ input = NoInput
  /\ output = Pending

\* no message has been handled yet
NoMessage ==
  [variant |-> "none", userId |-> "", text |-> <<>>, availableTools |-> <<>>,
   aiResponse |-> [t |-> "none", v |-> <<>>], toolCalls |-> <<>>, results |-> <<>>, reported |-> 0]

InitProcs ==
  /\ stk = [p \in Procs |-> <<>>]
  /\ sig = [p \in Procs |-> "ok"]
  /\ rv = [p \in Procs |-> Undefined]
  /\ op = [p \in Procs |-> "none"]
  /\ nOps = 0
  /\ hnd = NoMessage
  /\ sent = <<>>

\* an unset environment variable reads as the empty text
EnvUnset == [GITHUB_DEFAULT_OWNER |-> <<>>, GITHUB_DEFAULT_REPO |-> <<>>]
EnvDefaults == [GITHUB_DEFAULT_OWNER |-> s_octocat, GITHUB_DEFAULT_REPO |-> s_hello_world]

\* `new Map<string, GitHubTokenInfo>()`
EmptyStore == [u \in {} |-> {}]

InitStore ==
  /\ tokenStore = EmptyStore
  /\ now = 0
  /\ lastCheck = <<>>

\* `const pendingOAuthStates = new Map()`: no state is pending
InitOAuthStates ==
  /\ pendingOAuthStates = EmptyStore
  /\ oauthLog = <<>>

InitClient ==
  /\ InitPure
  /\ InitInstances
  /\ InitProcs
  /\ inst = [p \in Procs |-> "p1"]
  /\ env = EnvUnset
  /\ InitStore
  /\ InitOAuthStates

\* one caller: each call is made when the call before it has returned
NextClient ==
  \E p \in {"p1"} :
    \/ CallConnect(p)
    \/ CallListTools(p)
    \/ CallCallTool(p)
    \/ CallDisconnect(p)
    \/ ClientStep(p)
    \/ CloseResolves(p)
    \/ CloseRejects(p)

SpecClient == InitClient /\ [][NextClient]_vars

\* two callers of one client: a call may be made while another is suspended
NextClientConc ==
  \E p \in Procs :
    \/ nOps < MaxConcurrentOps /\ CallConnect(p)
    \/ nOps < MaxConcurrentOps /\ CallListTools(p)
    \/ nOps < MaxConcurrentOps /\ CallCallTool(p)
    \/ ClientStep(p)

SpecClientConc == InitClient /\ [][NextClientConc]_vars

(***************************************************************************)
(* GitHubMcpService (githubMcpService.ts)                                  *)
(***************************************************************************)
Tools(ts) == [t |-> "tools", v |-> ts]
String(parts) == [t |-> "string", v |-> parts]

(***************************************************************************)
(* Tool results: JSON values.  A string is the sequence of its characters  *)
(* (or of longer parts, where the code never looks inside them); an object *)
(* is the sequence of its entries, in insertion order.  A text is built    *)
(* as a sequence of parts.                                                 *)
(***************************************************************************)
Array(v) == [t |-> "array", v |-> v]
Number(n) == [t |-> "number", v |-> n]
Boolean(b) == [t |-> "boolean", v |-> b]
Entry(key, value) == [key |-> key, value |-> value]
Object(entries) == [t |-> "object", v |-> entries]

\* value === null || value === undefined
IsNullish(v) == v.t \in {"null", "undefined"}

\* the truthiness of a value
Truthy(v) ==
  CASE v.t \in {"null", "undefined"} -> FALSE
    [] v.t = "boolean" -> v.v
    [] v.t = "number" -> v.v # 0
    [] v.t = "string" -> v.v # <<>>
    [] OTHER -> TRUE

\* typeof v === 'object'
TypeofObject(v) == v.t \in {"null", "array", "object", "mcp"}

\* v[key], for a v that is neither null nor undefined
Get(v, key) ==
  CASE v.t = "object" ->
         IF \E k \in 1..Len(v.v) : v.v[k].key = key
         THEN v.v[CHOOSE k \in 1..Len(v.v) : v.v[k].key = key].value
         ELSE Undefined
    [] v.t \in {"array", "string"} /\ key = "length" -> Number(Len(v.v))
    [] OTHER -> Undefined

\* v?.[key]
OptGet(v, key) == IF IsNullish(v) THEN Undefined ELSE Get(v, key)

\* Array.prototype.join for texts
RECURSIVE Join(_, _)
Join(texts, sep) ==
  IF texts = <<>> THEN <<>>
  ELSE IF Len(texts) = 1 THEN texts[1]
  ELSE LET half == Len(texts) \div 2
       IN Join(SubSeq(texts, 1, half), sep) \o <<sep>> \o Join(SubSeq(texts, half + 1, Len(texts)), sep)

\* String(v), also `${v}`
RECURSIVE ToText(_)
ToText(v) ==
  CASE v.t = "string" -> v.v
    [] v.t = "number" -> <<ToString(v.v)>>
    [] v.t = "boolean" -> <<IF v.v THEN "true" ELSE "false">>
    [] v.t = "null" -> <<"null">>
    [] v.t = "undefined" -> <<"undefined">>
    [] v.t = "array" ->
         Join([k \in 1..Len(v.v) |-> IF IsNullish(v.v[k]) THEN <<>> ELSE ToText(v.v[k])], ",")
    [] OTHER -> <<"[object Object]">>

\* JSON.stringify(v)
RECURSIVE stringify(_)
stringify(v) ==
  CASE v.t = "string" -> <<"\"">> \o v.v \o <<"\"">>
    [] v.t = "array" ->
         <<"[">> \o Join([k \in 1..Len(v.v) |->
                            IF v.v[k].t = "undefined" THEN <<"null">> ELSE stringify(v.v[k])], ",")
                 \o <<"]">>
    [] v.t = "object" ->
         LET kept == SelectSeq(v.v, LAMBDA e : e.value.t # "undefined")
         IN <<"{">> \o Join([k \in 1..Len(kept) |-> <<"\"", kept[k].key, "\":">> \o stringify(kept[k].value)], ",")
                    \o <<"}">>
    [] v.t = "mcp" ->
         <<"{\"content\":[">> \o Join([k \in 1..Len(v.v) |-> <<v.v[k].type, v.v[k].text>>], ",") \o <<"]}">>
    [] OTHER -> ToText(v)

\* Object.entries(item)
entries(item) ==
  IF item.t = "object" THEN item.v
  ELSE IF item.t = "array" THEN [k \in 1..Len(item.v) |-> Entry(ToString(k - 1), item.v[k])]
  ELSE <<>>

\* new Date(v).toLocaleDateString()
toLocaleDateString(v) == <<"Date(">> \o ToText(v) \o <<")">>

\* a piece of text that is added under a condition
When(cond, text) == IF cond THEN text ELSE <<>>

\* the body preview of formatSingleItem keeps this many characters
PreviewLength == 200

\* the fallback of formatSingleItem lists this many entries
MaxEntries == 10

\* loadAvailableTools(), up to `await this.mcpClient.listTools()`
loadAvailableTools(i) == Await("loadAvailableTools:514", <<>>, listTools(i))

\* initialize(), up to `await this.mcpClient.connect()`
initialize(i) == Await("initialize:343", <<>>, connect(i))

\* initialize(): `catch (error) { throw new Error(...) }`
initialize_catch(e) == Throw(Err(<<"Failed to initialize GitHub MCP service">> \o Message(e)))

\* getAvailableTools(): `if (!this.toolsLoaded) await this.loadAvailableTools()`
getAvailableTools(i) ==
  IF ~toolsLoaded[i] THEN Await("getAvailableTools:355", <<>>, loadAvailableTools(i))
  ELSE Return(Tools(availableTools[i]))

\* getToolsContext(), up to `await this.getAvailableTools()`
getToolsContext(i) == Await("getToolsContext:364", <<>>, getAvailableTools(i))

\* createSystemPrompt(), up to `await this.getToolsContext()`
createSystemPrompt(i) == Await("createSystemPrompt:549", <<>>, getToolsContext(i))

\* executeTool(toolName, args), up to `await this.mcpClient.callTool(toolName, args)`
executeTool(i, toolName) == Await("executeTool:395", toolName, callTool(i, toolName))

\* getDefaultRepository()
getDefaultRepository == [owner |-> env.GITHUB_DEFAULT_OWNER, repo |-> env.GITHUB_DEFAULT_REPO]

\* the `tools.map(...)` of loadAvailableTools(): `description: tool.description || '...'`
\* (the catalogs drawn here declare no inputSchema)
MapTool(tool) ==
  [name |-> tool.name,
   description |-> IF tool.description = "" THEN "No description available" ELSE tool.description]

\* loadAvailableTools(): the catalog kept from a listTools() response
LoadedTools(resp) ==
  IF resp.t = "listing" THEN [k \in 1..Len(resp.v) |-> MapTool(resp.v[k])] ELSE <<>>

\* getToolsContext(): the text rendered from the catalog
ToolsContext(tools) ==
  IF Len(tools) = 0
  THEN [header |-> "No GitHub MCP tools are currently available.", tools |-> <<>>]
  ELSE [header |-> "Available GitHub MCP tools:", tools |-> tools]

\* createSystemPrompt(): the tools context and the default repository settings
SystemPrompt(toolsContext) ==
  [toolsContext |-> toolsContext,
   defaults |-> IF getDefaultRepository.owner # <<>> /\ getDefaultRepository.repo # <<>>
                THEN "use these defaults"
                ELSE "No default repository configured"]

\* formatSingleItem(item): the issue template
formatIssueItem(item) ==
  LET body == Get(item, "body")
      long == Get(body, "length").t = "number" /\ Get(body, "length").v > PreviewLength
  IN IF Truthy(body) /\ long /\ body.t # "string"
     THEN Err(<<"item.body.substring is not a function">>)
     ELSE String(
       <<"**#">> \o ToText(Get(item, "number")) \o <<": ">> \o ToText(Get(item, "title")) \o <<"**\n">>
       \o When(Truthy(Get(item, "state")), <<"Status: ">> \o ToText(Get(item, "state")) \o <<"\n">>)
       \o When(Truthy(OptGet(Get(item, "user"), "login")),
               <<"Author: ">> \o ToText(OptGet(Get(item, "user"), "login")) \o <<"\n">>)
       \o When(Truthy(Get(item, "created_at")),
               <<"Created: ">> \o toLocaleDateString(Get(item, "created_at")) \o <<"\n">>)
       \o When(Truthy(body),
               <<"\nDescription:\n">> \o
               (IF long THEN SubSeq(body.v, 1, PreviewLength) \o <<"...">> ELSE ToText(body)))
       \o When(Truthy(Get(item, "html_url")),
               <<"\n\n[View on GitHub](">> \o ToText(Get(item, "html_url")) \o <<")">>))

\* formatSingleItem(item): the repository template
formatRepositoryItem(item) ==
  String(
    <<"**">> \o ToText(Get(item, "full_name")) \o <<"**\n">>
    \o When(Truthy(Get(item, "description")), ToText(Get(item, "description")) \o <<"\n">>)
    \o When(Truthy(Get(item, "language")), <<"Language: ">> \o ToText(Get(item, "language")) \o <<"\n">>)
    \o When(Get(item, "stargazers_count").t # "undefined",
            ToText(Get(item, "stargazers_count")) \o <<" stars\n">>)
    \o When(Truthy(Get(item, "html_url")),
            <<"[View on GitHub](">> \o ToText(Get(item, "html_url")) \o <<")">>))

\* formatSingleItem(item): the pull request template
formatPullRequestItem(item) ==
  String(
    <<"**PR #">> \o ToText(Get(item, "number")) \o <<": ">> \o ToText(Get(item, "title")) \o <<"**\n">>
    \o When(Truthy(Get(item, "state")), <<"Status: ">> \o ToText(Get(item, "state")) \o <<"\n">>)
    \o When(Truthy(OptGet(Get(item, "user"), "login")),
            <<"Author: ">> \o ToText(OptGet(Get(item, "user"), "login")) \o <<"\n">>)
    \o When(Truthy(OptGet(Get(item, "head"), "ref")) /\ Truthy(OptGet(Get(item, "base"), "ref")),
            ToText(OptGet(Get(item, "head"), "ref")) \o <<" -> ">>
            \o ToText(OptGet(Get(item, "base"), "ref")) \o <<"\n">>)
    \o When(Truthy(Get(item, "created_at")),
            <<"Created: ">> \o toLocaleDateString(Get(item, "created_at")) \o <<"\n">>)
    \o When(Truthy(Get(item, "html_url")),
            <<"[View on GitHub](">> \o ToText(Get(item, "html_url")) \o <<")">>))

\* formatSingleItem(item): the key-value fallback
formatKeyValue(item) ==
  LET IsShown(e) == ~IsNullish(e.value) /\ ~(e.value.t = "string" /\ e.value.v = <<>>)
      shown == SelectSeq(entries(item), IsShown)
      first == SubSeq(shown, 1, IF Len(shown) < MaxEntries THEN Len(shown) ELSE MaxEntries)
      keyValue == Join([k \in 1..Len(first) |-> <<first[k].key, ": ">> \o ToText(first[k].value)], "\n")
  IN String(IF keyValue # <<>> THEN keyValue ELSE stringify(item))

\* formatSingleItem(item): a text, or the error a template raised
formatSingleItem(item) ==
  IF ~Truthy(item) \/ ~TypeofObject(item) THEN String(ToText(item))
  ELSE IF Truthy(Get(item, "number")) /\ Truthy(Get(item, "title")) THEN formatIssueItem(item)
  ELSE IF Truthy(Get(item, "name")) /\ Truthy(Get(item, "full_name")) THEN formatRepositoryItem(item)
  ELSE IF Truthy(Get(item, "number")) /\ Truthy(Get(item, "title")) /\ Truthy(Get(item, "head"))
  THEN formatPullRequestItem(item)
  ELSE formatKeyValue(item)

\* the texts of a list of formatted items, or the first error raised among them
Texts(formatted) ==
  IF \E k \in 1..Len(formatted) : formatted[k].t = "error"
  THEN formatted[CHOOSE k \in 1..Len(formatted) :
                   formatted[k].t = "error" /\ \A j \in 1..(k - 1) : formatted[j].t # "error"]
  ELSE String([k \in 1..Len(formatted) |-> formatted[k].v])

\* formatToolResult(): one element of `result.content`
formatContentItem(item) ==
  IF IsNullish(item) THEN Err(<<"Cannot read properties of null (reading 'type')">>)
  ELSE IF Get(item, "type") = String(<<"t", "e", "x", "t">>)
  THEN String(IF IsNullish(Get(item, "text")) THEN <<>> ELSE ToText(Get(item, "text")))
  ELSE String(stringify(item))

formatItems_unindexed(items) ==
  LET blocks == Texts([k \in 1..Len(items) |-> formatSingleItem(items[k])])
  IN IF blocks.t = "error" THEN blocks ELSE String(Join(blocks.v, "\n\n"))

\* formatToolResult(): an array of two or more items
formatItems(items) ==
  LET blocks == Texts([k \in 1..Len(items) |-> formatSingleItem(items[k])])
  IN IF blocks.t = "error" THEN blocks
     ELSE String(Join([k \in 1..Len(items) |-> <<"**Item ", ToString(k), ":**\n">> \o blocks.v[k]], "\n\n"))

\* formatToolResult(toolName, result): the body of the `try`
formatToolResult_try(result) ==
  IF result.t = "mcp"
  THEN String(Join([k \in 1..Len(result.v) |-> <<result.v[k].text>>], "\n\n"))
  ELSE IF result.t = "object" /\ Get(result, "content").t = "array"
  THEN LET texts == Texts([k \in 1..Len(Get(result, "content").v) |->
                             formatContentItem(Get(result, "content").v[k])])
       IN IF texts.t = "error" THEN texts ELSE String(Join(texts.v, "\n\n"))
  ELSE IF result.t = "string" THEN result
  ELSE IF TypeofObject(result)
  THEN IF result.t = "array"
       THEN IF Len(result.v) = 0 THEN String(<<"No results found.">>)
            ELSE IF Len(result.v) = 1 THEN formatSingleItem(result.v[1])
            ELSE formatItems(result.v)
       ELSE formatSingleItem(result)
  ELSE String(ToText(result))

formatToolResult_rethrow(result, error) == error

\* formatToolResult(): `catch (error) { return `Raw result: ...` }`
formatToolResult_catch(result, error) == String(<<"Raw result: ">> \o stringify(result))

\* formatToolResult(toolName, result): a text, or the error that left it
formatToolResult(toolName, result) ==
  LET formatted == formatToolResult_try(result)
  IN IF formatted.t = "error" THEN formatToolResult_catch(result, formatted) ELSE formatted

\* executeTool(): the result of a call that returned
ToolSuccess(toolName, result) ==
  [success |-> TRUE, toolName |-> toolName, data |-> result, error |-> <<>>,
   formattedResult |-> formatToolResult(toolName, result).v]

\* executeTool(): the result of a call that threw
ToolFailure(toolName, e) ==
  [success |-> FALSE, toolName |-> toolName, data |-> Undefined, error |-> Message(e),
   formattedResult |-> <<>>]

Result(r) == [t |-> "result", v |-> r]

executeTool_rethrow(toolName, e) == Throw(e)

\* executeTool(): `catch (error) { return { success: false, ... } }`
executeTool_catch(toolName, e) == Return(Result(ToolFailure(toolName, e)))

\* a caller calls initialize()
CallInitialize(p) ==
  /\ Invoke(p, "initialize", initialize(inst[p]))
  /\ UNCHANGED <<connected, availableTools, toolsLoaded>>

\* a caller calls getAvailableTools()
CallGetAvailableTools(p) ==
  /\ Invoke(p, "getAvailableTools", getAvailableTools(inst[p]))
  /\ UNCHANGED <<connected, availableTools, toolsLoaded>>

\* a caller calls getToolsContext()
CallGetToolsContext(p) ==
  /\ Invoke(p, "getToolsContext", getToolsContext(inst[p]))
  /\ UNCHANGED <<connected, availableTools, toolsLoaded>>

\* a caller calls createSystemPrompt()
CallCreateSystemPrompt(p) ==
  /\ Invoke(p, "createSystemPrompt", createSystemPrompt(inst[p]))
  /\ UNCHANGED <<connected, availableTools, toolsLoaded>>

\* a caller calls executeTool(toolName, args)
CallExecuteTool(p) ==
  \E toolName \in ToolNames :
    /\ Invoke(p, "executeTool", executeTool(inst[p], toolName))
    /\ UNCHANGED <<connected, availableTools, toolsLoaded>>

\* initialize() resumes after `await this.mcpClient.connect()`:
\* `await this.loadAvailableTools()`
ResumeInitialize(p) ==
  /\ Settled(p, "initialize:343")
  /\ Go(p, Front(stk[p]),
        IF sig[p] = "ok" THEN Await("initialize:344", <<>>, loadAvailableTools(inst[p]))
        ELSE initialize_catch(rv[p]), <<>>)
  /\ UNCHANGED <<connected, availableTools, toolsLoaded, op, inst, nOps, env, oauthVars, pureVars, storeVars, handlerVars>>

\* initialize() resumes after `await this.loadAvailableTools()`
ResumeInitializeLoaded(p) ==
  /\ Settled(p, "initialize:344")
  /\ Go(p, Front(stk[p]),
        IF sig[p] = "ok" THEN Return(Undefined) ELSE initialize_catch(rv[p]), <<>>)
  /\ UNCHANGED <<connected, availableTools, toolsLoaded, op, inst, nOps, env, oauthVars, pureVars, storeVars, handlerVars>>

\* loadAvailableTools() resumes after `await this.mcpClient.listTools()`: the catalog
\* is stored, or emptied in the catch, and `this.toolsLoaded = true` either way
ResumeLoadAvailableTools(p) ==
  /\ Settled(p, "loadAvailableTools:514")
  /\ availableTools' = [availableTools EXCEPT ![inst[p]] =
                          IF sig[p] = "ok" THEN LoadedTools(rv[p]) ELSE <<>>]
  /\ toolsLoaded' = [toolsLoaded EXCEPT ![inst[p]] = TRUE]
  /\ Go(p, Front(stk[p]), Return(Undefined), <<>>)
  /\ UNCHANGED <<connected, op, inst, nOps, env, oauthVars, pureVars, storeVars, handlerVars>>

\* getAvailableTools() resumes after `await this.loadAvailableTools()`:
\* `return this.availableTools`
ResumeGetAvailableTools(p) ==
  /\ Settled(p, "getAvailableTools:355")
  /\ Go(p, Front(stk[p]),
        IF sig[p] = "ok" THEN Return(Tools(availableTools[inst[p]])) ELSE Throw(rv[p]), <<>>)
  /\ UNCHANGED <<connected, availableTools, toolsLoaded, op, inst, nOps, env, oauthVars, pureVars, storeVars, handlerVars>>

\* getToolsContext() resumes after `await this.getAvailableTools()`
ResumeGetToolsContext(p) ==
  /\ Settled(p, "getToolsContext:364")
  /\ Go(p, Front(stk[p]),
        IF sig[p] = "ok" THEN Return(String(ToolsContext(rv[p].v))) ELSE Throw(rv[p]), <<>>)
  /\ UNCHANGED <<connected, availableTools, toolsLoaded, op, inst, nOps, env, oauthVars, pureVars, storeVars, handlerVars>>

\* createSystemPrompt() resumes after `await this.getToolsContext()`
ResumeCreateSystemPrompt(p) ==
  /\ Settled(p, "createSystemPrompt:549")
  /\ Go(p, Front(stk[p]),
        IF sig[p] = "ok" THEN Return(String(SystemPrompt(rv[p].v))) ELSE Throw(rv[p]), <<>>)
  /\ UNCHANGED <<connected, availableTools, toolsLoaded, op, inst, nOps, env, oauthVars, pureVars, storeVars, handlerVars>>

\* executeTool() resumes after `await this.mcpClient.callTool(toolName, args)`
ResumeExecuteTool(p) ==
  /\ Settled(p, "executeTool:395")
  /\ Go(p, Front(stk[p]),
        IF sig[p] = "err" THEN executeTool_catch(Top(p).arg, rv[p])
        ELSE IF formatToolResult(Top(p).arg, rv[p]).t = "error"
        THEN executeTool_catch(Top(p).arg, formatToolResult(Top(p).arg, rv[p]))
        ELSE Return(Result(ToolSuccess(Top(p).arg, rv[p]))), <<>>)
  /\ UNCHANGED <<connected, availableTools, toolsLoaded, op, inst, nOps, env, oauthVars, pureVars, storeVars, handlerVars>>

\* the steps inside GitHubMcpService, whoever called
ServiceStep(p) ==
  \/ ResumeInitialize(p)
  \/ ResumeInitializeLoaded(p)
  \/ ResumeLoadAvailableTools(p)
  \/ ResumeGetAvailableTools(p)
  \/ ResumeGetToolsContext(p)
  \/ ResumeCreateSystemPrompt(p)
  \/ ResumeExecuteTool(p)

(***************************************************************************)
(* One GitHubMcpService, its public methods called one after another       *)
(* (SpecService) or by two callers at once (SpecServiceConc)               *)
(***************************************************************************)
InitService ==
  /\ InitPure
  /\ InitInstances
  /\ InitProcs
  /\ inst = [p \in Procs |-> "p1"]
  /\ env \in {EnvUnset, EnvDefaults}
  /\ InitStore
  /\ InitOAuthStates

NextService ==
  \E p \in {"p1"} :
    \/ CallInitialize(p)
    \/ CallGetAvailableTools(p)
    \/ CallGetToolsContext(p)
    \/ CallCreateSystemPrompt(p)
    \/ CallExecuteTool(p)
    \/ ServiceStep(p)
    \/ ClientStep(p)

SpecService == InitService /\ [][NextService]_vars

\* two callers: a call may start while the other caller's call is suspended
NextServiceConc ==
  \E p \in Procs :
    \/ nOps < MaxConcurrentOps /\ CallInitialize(p)
    \/ nOps < MaxConcurrentOps /\ CallGetAvailableTools(p)
    \/ nOps < MaxConcurrentOps /\ CallGetToolsContext(p)
    \/ nOps < MaxConcurrentOps /\ CallCreateSystemPrompt(p)
    \/ nOps < MaxConcurrentOps /\ CallExecuteTool(p)
    \/ ServiceStep(p)
    \/ ClientStep(p)

SpecServiceConc == InitService /\ [][NextServiceConc]_vars

(***************************************************************************)
(* GitHubToolParser: the result templates (githubToolParser.ts)            *)
(***************************************************************************)
slice_all(items, n) == items

\* result.slice(0, n)
slice(items, n) == SubSeq(items, 1, IF Len(items) < n THEN Len(items) ELSE n)

\* `(showing ${shown.length}${result.length > n ? ' of ' + result.length : ''})`
showing(items, n) ==
  <<ToString(Len(slice(items, n)))>> \o When(Len(items) > n, <<" of ", ToString(Len(items))>>)

\* a template applied to each of the items: reading a property of a null item raises
mapItems(items, line(_)) ==
  Texts([k \in 1..Len(items) |->
           IF IsNullish(items[k]) THEN Err(<<"Cannot read properties of null">>)
           ELSE String(line(items[k]))])

\* formatRepoList(result)
formatRepoList(result) ==
  IF ~Truthy(result) \/ result.t # "array" THEN String(<<"No repositories found.">>)
  ELSE LET line(repo) ==
             <<"* **">> \o ToText(Get(repo, "name")) \o <<"** ">>
             \o <<IF Truthy(Get(repo, "private")) THEN "private" ELSE "public">> \o <<"\n  ">>
             \o (IF Truthy(Get(repo, "description")) THEN ToText(Get(repo, "description"))
                 ELSE <<"No description">>)
             \o <<"\n  ">> \o ToText(Get(repo, "html_url"))
           repoList == mapItems(slice(result.v, 10), line)
       IN IF repoList.t = "error" THEN repoList
          ELSE String(<<"**Your Repositories** (showing ">> \o showing(result.v, 10) \o <<"):\n\n">>
                      \o Join(repoList.v, "\n\n"))

\* the line of formatPullRequestList and formatIssuesList for one item
formatListLine(item) ==
  <<"* **#">> \o ToText(Get(item, "number")) \o <<"** ">> \o ToText(Get(item, "title")) \o <<"\n  ">>
  \o ToText(OptGet(Get(item, "user"), "login")) \o <<" * ">> \o ToText(Get(item, "state")) \o <<" * ">>
  \o toLocaleDateString(Get(item, "created_at")) \o <<"\n  ">> \o ToText(Get(item, "html_url"))

\* formatPullRequestList(result)
formatPullRequestList(result) ==
  IF ~Truthy(result) \/ result.t # "array" THEN String(<<"No pull requests found.">>)
  ELSE LET prList == mapItems(slice(result.v, 5), formatListLine)
       IN IF prList.t = "error" THEN prList
          ELSE String(<<"**Pull Requests** (showing ">> \o showing(result.v, 5) \o <<"):\n\n">>
                      \o Join(prList.v, "\n\n"))

\* formatIssuesList(result)
formatIssuesList(result) ==
  IF ~Truthy(result) \/ result.t # "array" THEN String(<<"No issues found.">>)
  ELSE LET issueList == mapItems(slice(result.v, 5), formatListLine)
       IN IF issueList.t = "error" THEN issueList
          ELSE String(<<"**Issues** (showing ">> \o showing(result.v, 5) \o <<"):\n\n">>
                      \o Join(issueList.v, "\n\n"))

\* formatSingleIssue(): `issue.labels.map(label => label.name)` and
\* `issue.assignees.map(assignee => assignee.login)`, for a list that is
\* truthy and has a length above 0
mapNames(list, key) ==
  IF list.t # "array" THEN Err(<<"map is not a function">>)
  ELSE mapItems(list.v, LAMBDA x : ToText(Get(x, key)))

\* formatSingleIssue(result)
formatSingleIssue(result) ==
  IF ~Truthy(result) THEN String(<<"Could not retrieve issue.">>)
  ELSE LET issue == result
           NonEmpty(list) ==
             Truthy(list) /\ Get(list, "length").t = "number" /\ Get(list, "length").v > 0
           labels == IF NonEmpty(Get(issue, "labels")) THEN mapNames(Get(issue, "labels"), "name")
                     ELSE String(<<>>)
           assignees == IF NonEmpty(Get(issue, "assignees"))
                        THEN mapNames(Get(issue, "assignees"), "login")
                        ELSE String(<<>>)
       IN IF labels.t = "error" THEN labels
          ELSE IF assignees.t = "error" THEN assignees
          ELSE String(
            <<"**Issue #">> \o ToText(Get(issue, "number")) \o <<"**\n\n**">>
            \o ToText(Get(issue, "title")) \o <<"**\n\n**Description:**\n">>
            \o (IF Truthy(Get(issue, "body")) THEN ToText(Get(issue, "body"))
                ELSE <<"No description provided">>)
            \o <<"\n\n**Author:** ">> \o ToText(OptGet(Get(issue, "user"), "login"))
            \o <<"\n**State:** ">> \o ToText(Get(issue, "state"))
            \o <<"\n**Created:** ">> \o toLocaleDateString(Get(issue, "created_at"))
            \o <<"\n**Updated:** ">> \o toLocaleDateString(Get(issue, "updated_at")) \o <<"\n">>
            \o When(NonEmpty(Get(issue, "labels")), <<"**Labels:** ">> \o Join(labels.v, " ") \o <<"\n">>)
            \o When(NonEmpty(Get(issue, "assignees")),
                    <<"**Assignees:** ">> \o Join(assignees.v, ", ") \o <<"\n">>)
            \o <<"\n[View on GitHub](">> \o ToText(Get(issue, "html_url")) \o <<")">>)

\* `${v || fallback}`
OrElse(v, fallback) == IF Truthy(v) THEN ToText(v) ELSE fallback

\* formatUserProfile(result)
formatUserProfile(result) ==
  IF ~Truthy(result) THEN String(<<"Could not retrieve user profile.">>)
  ELSE String(
    <<"**GitHub Profile**\n\n**">>
    \o OrElse(Get(result, "name"), ToText(Get(result, "login"))) \o <<"**\n@">>
    \o ToText(Get(result, "login")) \o <<"\n">> \o OrElse(Get(result, "bio"), <<"No bio">>) \o <<"\n\n">>
    \o OrElse(Get(result, "location"), <<"Location not specified">>) \o <<"\n">>
    \o OrElse(Get(result, "public_repos"), <<"0">>) \o <<" public repos * ">>
    \o OrElse(Get(result, "followers"), <<"0">>) \o <<" followers * ">>
    \o OrElse(Get(result, "following"), <<"0">>) \o <<" following\n">>
    \o ToText(Get(result, "html_url")))

\* formatToolsList(result)
formatToolsList(result) ==
  IF ~Truthy(result) \/ ~Truthy(Get(result, "tools")) \/ Get(result, "tools").t # "array"
  THEN String(<<"**Available GitHub Tools**: Could not retrieve tool list.">>)
  ELSE LET tools == Get(result, "tools").v
           line(tool) ==
             <<"* **">> \o ToText(Get(tool, "name")) \o <<"**: ">>
             \o OrElse(Get(tool, "description"), <<"No description">>)
           toolList == mapItems(slice(tools, 10), line)
       IN IF toolList.t = "error" THEN toolList
          ELSE String(<<"**Available GitHub Tools** (">> \o showing(tools, 10) \o <<"):\n\n">>
                      \o Join(toolList.v, "\n"))

\* GitHubToolParser.formatToolResult(toolName, result): the `switch`
parserFormatToolResult_try(toolName, result) ==
  CASE toolName = "github_repo_list" -> formatRepoList(result)
    [] toolName = "github_pr_list" -> formatPullRequestList(result)
    [] toolName = "github_issues_list" -> formatIssuesList(result)
    [] toolName = "github_issue_get" -> formatSingleIssue(result)
    [] toolName = "github_user_get" -> formatUserProfile(result)
    [] toolName = "_list_tools" -> formatToolsList(result)
    [] OTHER -> String(<<"Tool '", toolName, "' executed successfully:\n">> \o stringify(result))

\* GitHubToolParser.formatToolResult(): `catch (error) { return ... }`
parserFormatToolResult_catch(toolName, result, error) ==
  String(<<"Tool '", toolName, "' completed but result formatting failed: ">> \o stringify(result))

\* GitHubToolParser.formatToolResult(toolName, result)
parserFormatToolResult(toolName, result) ==
  LET formatted == parserFormatToolResult_try(toolName, result)
  IN IF formatted.t = "error" THEN parserFormatToolResult_catch(toolName, result, formatted)
     ELSE formatted

(***************************************************************************)
(* The results the formatters are applied to                               *)
(***************************************************************************)
c_bug == <<"b", "u", "g">>
c_open == <<"o", "p", "e", "n">>
c_text == <<"t", "e", "x", "t">>
c_main == <<"m", "a", "i", "n">>
c_fix == <<"f", "i", "x">>
User(login) == Object(<<Entry("login", String(login))>>)

\* a partial issue: no user, no body
PartialIssue == Object(<<Entry("number", Number(68)), Entry("title", String(c_bug))>>)
IssueItem(body) ==
  Object(<<Entry("number", Number(68)), Entry("title", String(c_bug)), Entry("state", String(c_open)),
           Entry("user", User(s_octocat)), Entry("body", body), Entry("html_url", String(<<"url">>))>>)
LabelledIssue(labels) ==
  Object(<<Entry("number", Number(7)), Entry("title", String(c_bug)), Entry("labels", labels)>>)
PullRequest ==
  Object(<<Entry("number", Number(5)), Entry("title", String(c_fix)), Entry("state", String(c_open)),
           Entry("head", Object(<<Entry("ref", String(c_fix))>>)),
           Entry("base", Object(<<Entry("ref", String(c_main))>>))>>)
Repository ==
  Object(<<Entry("name", String(s_hello_world)), Entry("full_name", String(<<"octocat/hello-world">>)),
           Entry("private", Boolean(FALSE)), Entry("stargazers_count", Number(0))>>)
Nested ==
  Object(<<Entry("a", Object(<<Entry("b", Array(<<Number(1), Object(<<Entry("c", Null)>>)>>))>>)),
           Entry("d", String(<<>>))>>)
Profile == Object(<<Entry("login", String(s_octocat)), Entry("followers", Number(3))>>)
ToolsListing(tools) == Object(<<Entry("tools", tools)>>)
Content(items) == Object(<<Entry("content", Array(items))>>)
\* a text of n characters
Chars(n) == [k \in 1..n |-> "x"]

\* single values: what a tool can return, and what an array can hold
Elements ==
  {Null, String(c_bug), String(<<>>), Number(5), Number(0), Boolean(FALSE),
   PartialIssue,
   IssueItem(String(c_bug)),
   IssueItem(String(Chars(PreviewLength))),
   IssueItem(String(Chars(PreviewLength + 1))),
   IssueItem(Array([k \in 1..(PreviewLength + 1) |-> Number(0)])),
   IssueItem(Number(5)),
   LabelledIssue(String(c_bug)),
   LabelledIssue(Array(<<Object(<<Entry("name", String(c_bug))>>)>>)),
   LabelledIssue(Array(<<Null>>)),
   PullRequest, Repository, Nested, Profile,
   Object(<<>>),
   ToolsListing(Array(<<Object(<<Entry("name", String(s_get_issue))>>)>>)),
   ToolsListing(Array(<<Null>>)),
   Content(<<Object(<<Entry("type", String(c_text)), Entry("text", String(c_bug))>>), Number(5)>>),
   Content(<<Null>>),
   Content(<<>>),
   Array(<<>>),
   Array(<<Number(1), Number(2)>>)}

\* the elements of the longer arrays
Some == {Null, PartialIssue, Repository, IssueItem(Array([k \in 1..(PreviewLength + 1) |-> Number(0)]))}

FormatResults ==
  Elements
  \cup {Array(<<x>>) : x \in Elements}
  \cup {Array(<<x, y>>) : x, y \in Some}
  \cup {Array(<<PartialIssue, Repository, PullRequest>>)}
  \cup {Array([k \in 1..(MaxEntries + 1) |-> Repository])}

ParserToolNames ==
  {"github_repo_list", "github_pr_list", "github_issues_list", "github_issue_get",
   "github_user_get", "_list_tools", "github_repo_create"}

FormatInput(formatter, toolName, result) ==
  [fn |-> formatter, toolName |-> toolName, result |-> result]

\* GitHubMcpService.formatToolResult is applied to the input
FormatServiceResult ==
  /\ input.fn = "service"
  /\ output = Pending
  /\ output' = formatToolResult(input.toolName, input.result)
  /\ UNCHANGED <<input, clientVars, procVars, env, oauthVars, storeVars, handlerVars>>

\* GitHubToolParser.formatToolResult is applied to the input
FormatParserResult ==
  /\ input.fn = "parser"
  /\ output = Pending
  /\ output' = parserFormatToolResult(input.toolName, input.result)
  /\ UNCHANGED <<input, clientVars, procVars, env, oauthVars, storeVars, handlerVars>>

InitFormat ==
  /\ InitInstances
  /\ InitProcs
  /\ inst = [p \in Procs |-> p]
  /\ env = EnvUnset
  /\ InitStore
  /\ InitOAuthStates
  /\ input \in {FormatInput("service", "get_issue", r) : r \in FormatResults}
               \cup {FormatInput("parser", n, r) : n \in ParserToolNames, r \in FormatResults}
  /\ output = Pending

NextFormat == FormatServiceResult \/ FormatParserResult

SpecFormat == InitFormat /\ [][NextFormat]_vars

(***************************************************************************)
(* The credential store (tokenStore.ts) and the validity check             *)
(* (githubOAuth.ts).  Time is counted in days: the source's                *)
(* `30 * 24 * 60 * 60 * 1000` milliseconds are ThirtyDays days.            *)
(***************************************************************************)
Users == {"u1", "u2"}

ThirtyDays == 30

\* GitHubTokenInfo, as the OAuth callback builds it: `obtained_at: Date.now()`
TokenInfo(obtained_at) ==
  [access_token |-> "gho_token", token_type |-> "bearer", scope |-> "repo", obtained_at |-> obtained_at]

\* isTokenValid(tokenInfo)
isTokenValid(tokenInfo) ==
  LET thirtyDaysAgo == now - ThirtyDays IN tokenInfo.obtained_at > thirtyDaysAgo

\* getStoredToken(userId): `tokenStore.get(userId) || null`; null is the empty sequence
getStoredToken(userId) ==
  IF userId \in DOMAIN tokenStore THEN <<tokenStore[userId]>> ELSE <<>>

hasValidToken_inclusive(userId) ==
  LET tokenInfo == getStoredToken(userId) IN
  IF tokenInfo = <<>> THEN FALSE
  ELSE LET thirtyDaysAgo == now - ThirtyDays IN tokenInfo[1].obtained_at >= thirtyDaysAgo

\* hasValidToken(userId)
hasValidToken(userId) ==
  LET tokenInfo == getStoredToken(userId) IN
  IF tokenInfo = <<>> THEN FALSE
  ELSE LET thirtyDaysAgo == now - ThirtyDays IN tokenInfo[1].obtained_at > thirtyDaysAgo

\* the map after `tokenStore.set(userId, tokenInfo)`
MapSet(map, key, value) ==
  [k \in DOMAIN map \cup {key} |-> IF k = key THEN value ELSE map[k]]

\* the map after `tokenStore.delete(userId)`
MapDelete(map, key) == [k \in DOMAIN map \ {key} |-> map[k]]

\* storeToken(userId, tokenInfo), with the record the OAuth callback has just built
StoreToken(userId) ==
  /\ tokenStore' = MapSet(tokenStore, userId, TokenInfo(now))
  /\ UNCHANGED <<now, lastCheck>>
  /\ UNCHANGED <<clientVars, procVars, env, oauthVars, pureVars, handlerVars>>

\* removeToken(userId)
RemoveToken(userId) ==
  /\ userId \in DOMAIN tokenStore
  /\ tokenStore' = MapDelete(tokenStore, userId)
  /\ UNCHANGED <<now, lastCheck>>
  /\ UNCHANGED <<clientVars, procVars, env, oauthVars, pureVars, handlerVars>>

\* a day passes
Tick ==
  /\ now < MaxNow
  /\ now' = now + 1
  /\ UNCHANGED <<tokenStore, lastCheck>>
  /\ UNCHANGED <<clientVars, procVars, env, oauthVars, pureVars, handlerVars>>

\* a caller checks a user's credential: hasValidToken(userId), and
\* isTokenValid(tokenInfo) on the stored record when there is one
CheckToken(userId) ==
  /\ lastCheck' = <<[userId |-> userId,
                     hasValidToken |-> hasValidToken(userId),
                     isTokenValid |-> IF getStoredToken(userId) = <<>> THEN FALSE
                                      ELSE isTokenValid(getStoredToken(userId)[1])]>>
  /\ UNCHANGED <<tokenStore, now>>
  /\ UNCHANGED <<clientVars, procVars, env, oauthVars, pureVars, handlerVars>>

InitToken ==
  /\ InitPure
  /\ InitInstances
  /\ InitProcs
  /\ inst = [p \in Procs |-> p]
  /\ env = EnvUnset
  /\ InitStore
  /\ InitOAuthStates

NextToken ==
  \/ \E userId \in Users : StoreToken(userId)
  \/ \E userId \in Users : RemoveToken(userId)
  \/ \E userId \in Users : CheckToken(userId)
  \/ Tick

SpecToken == InitToken /\ [][NextToken]_vars

(***************************************************************************)
(* Text operations of the message handlers                                 *)
(***************************************************************************)
s_github == <<"g", "i", "t", "h", "u", "b">>
s_slash_github == <<"/", "g", "i", "t", "h", "u", "b">>
s_repo == <<"r", "e", "p", "o">>
s_pull_request == <<"p", "u", "l", "l", " ", "r", "e", "q", "u", "e", "s", "t">>
s_mcp == <<"m", "c", "p">>
s_tool == <<"t", "o", "o", "l">>
s_issue == <<"i", "s", "s", "u", "e">>
s_hash == <<"#">>
s_available == <<"a", "v", "a", "i", "l", "a", "b", "l", "e">>
s_list == <<"l", "i", "s", "t">>
s_get == <<"g", "e", "t">>
s_list_repos == <<"l", "i", "s", "t", "_", "r", "e", "p", "o", "s">>

\* the texts users send
m_show_issue == <<"S", "h", "o", "w", " ", "G", "i", "t", "H", "u", "b", " ", "i", "s", "s", "u", "e", " ", "#", "6", "8">>
m_issue_no_number == <<"g", "i", "t", "h", "u", "b", " ", "i", "s", "s", "u", "e", " ", "#", "x">>
m_list_repos == <<"l", "i", "s", "t", " ", "m", "y", " ", "g", "i", "t", "h", "u", "b", " ", "r", "e", "p", "o", "s">>
m_available_tools == <<"w", "h", "a", "t", " ", "g", "i", "t", "h", "u", "b", " ", "t", "o", "o", "l", "s", " ", "a", "r", "e", " ", "a", "v", "a", "i", "l", "a", "b", "l", "e">>
m_search_code == <<"s", "e", "a", "r", "c", "h", " ", "g", "i", "t", "h", "u", "b", " ", "c", "o", "d", "e">>
m_hello == <<"h", "e", "l", "l", "o", " ", "g", "i", "t", "h", "u", "b">>
m_github == <<" ", "G", "i", "t", "H", "u", "b", " ">>
m_hello_mcp == <<"h", "e", "l", "l", "o", " ", "m", "c", "p">>
Messages ==
  {m_show_issue, m_issue_no_number, m_list_repos, m_available_tools, m_search_code, m_hello, m_github,
   m_hello_mcp}

UpperCase == <<"A", "B", "C", "D", "E", "F", "G", "H", "I", "J", "K", "L", "M",
               "N", "O", "P", "Q", "R", "S", "T", "U", "V", "W", "X", "Y", "Z">>
LowerCase == <<"a", "b", "c", "d", "e", "f", "g", "h", "i", "j", "k", "l", "m",
               "n", "o", "p", "q", "r", "s", "t", "u", "v", "w", "x", "y", "z">>
Digits == <<"0", "1", "2", "3", "4", "5", "6", "7", "8", "9">>

\* String.prototype.toLowerCase
toLowerCase(s) ==
  [k \in 1..Len(s) |->
     IF \E j \in 1..Len(UpperCase) : UpperCase[j] = s[k]
     THEN LowerCase[CHOOSE j \in 1..Len(UpperCase) : UpperCase[j] = s[k]]
     ELSE s[k]]

\* String.prototype.includes
includes(s, pat) ==
  \E k \in 0..(Len(s) - Len(pat)) : SubSeq(s, k + 1, k + Len(pat)) = pat

\* String.prototype.trim
trim(s) ==
  IF \A k \in 1..Len(s) : s[k] = " " THEN <<>>
  ELSE LET a == CHOOSE k \in 1..Len(s) : s[k] # " " /\ \A j \in 1..(k - 1) : s[j] = " "
           b == CHOOSE k \in 1..Len(s) : s[k] # " " /\ \A j \in (k + 1)..Len(s) : s[j] = " "
       IN SubSeq(s, a, b)

\* String.prototype.split(c), for a one-character separator
RECURSIVE split(_, _)
split(s, c) ==
  IF \A k \in 1..Len(s) : s[k] # c THEN <<s>>
  ELSE LET k == CHOOSE k \in 1..Len(s) : s[k] = c /\ \A j \in 1..(k - 1) : s[j] # c
       IN <<SubSeq(s, 1, k - 1)>> \o split(SubSeq(s, k + 1, Len(s)), c)

\* String.prototype.split(/\s+/): a run of blanks is one separator
RECURSIVE splitBlanks(_)
splitBlanks(s) ==
  IF \A k \in 1..Len(s) : s[k] # " " THEN <<s>>
  ELSE LET k == CHOOSE k \in 1..Len(s) : s[k] = " " /\ \A j \in 1..(k - 1) : s[j] # " "
           m == CHOOSE m \in k..Len(s) :
                  /\ \A j \in k..m : s[j] = " "
                  /\ (m = Len(s) \/ s[m + 1] # " ")
       IN <<SubSeq(s, 1, k - 1)>> \o splitBlanks(SubSeq(s, m + 1, Len(s)))

IsDigit(c) == \E j \in 1..Len(Digits) : Digits[j] = c

\* normalizedRequest.match(/#(\d+)/): the digits captured, or the empty
\* sequence for no match
matchIssueNumber(s) ==
  IF \A k \in 1..(Len(s) - 1) : ~(s[k] = "#" /\ IsDigit(s[k + 1])) THEN <<>>
  ELSE LET k == CHOOSE k \in 1..(Len(s) - 1) :
                  /\ s[k] = "#" /\ IsDigit(s[k + 1])
                  /\ \A j \in 1..(k - 1) : ~(s[j] = "#" /\ IsDigit(s[j + 1]))
           m == CHOOSE m \in (k + 1)..Len(s) :
                  /\ \A j \in (k + 1)..m : IsDigit(s[j])
                  /\ (m = Len(s) \/ ~IsDigit(s[m + 1]))
       IN SubSeq(s, k + 1, m)

\* parseInt of a sequence of digits
RECURSIVE parseInt(_)
parseInt(ds) ==
  IF ds = <<>> THEN 0
  ELSE parseInt(Front(ds)) * 10 + ((CHOOSE j \in 1..Len(Digits) : Digits[j] = ds[Len(ds)]) - 1)

(***************************************************************************)
(* The pattern resolver (githubToolParser.ts, GitHubToolParser)            *)
(***************************************************************************)
p_list_repos == <<"l", "i", "s", "t", " ", "r", "e", "p", "o", "s">>
p_show_repositories == <<"s", "h", "o", "w", " ", "r", "e", "p", "o", "s", "i", "t", "o", "r", "i", "e", "s">>
p_my_repos == <<"m", "y", " ", "r", "e", "p", "o", "s">>
p_repositories == <<"r", "e", "p", "o", "s", "i", "t", "o", "r", "i", "e", "s">>
p_create_repo == <<"c", "r", "e", "a", "t", "e", " ", "r", "e", "p", "o">>
p_new_repository == <<"n", "e", "w", " ", "r", "e", "p", "o", "s", "i", "t", "o", "r", "y">>
p_list_prs == <<"l", "i", "s", "t", " ", "p", "r", "s">>
p_pull_requests == <<"p", "u", "l", "l", " ", "r", "e", "q", "u", "e", "s", "t", "s">>
p_show_prs == <<"s", "h", "o", "w", " ", "p", "r", "s">>
p_open_prs == <<"o", "p", "e", "n", " ", "p", "r", "s">>
p_create_pr == <<"c", "r", "e", "a", "t", "e", " ", "p", "r">>
p_new_pull_request == <<"n", "e", "w", " ", "p", "u", "l", "l", " ", "r", "e", "q", "u", "e", "s", "t">>
p_open_pr == <<"o", "p", "e", "n", " ", "p", "r">>
p_list_issues == <<"l", "i", "s", "t", " ", "i", "s", "s", "u", "e", "s">>
p_show_issues == <<"s", "h", "o", "w", " ", "i", "s", "s", "u", "e", "s">>
p_open_issues == <<"o", "p", "e", "n", " ", "i", "s", "s", "u", "e", "s">>
p_issue_hash == <<"i", "s", "s", "u", "e", " ", "#">>
p_issue_number == <<"i", "s", "s", "u", "e", " ", "n", "u", "m", "b", "e", "r">>
p_show_issue == <<"s", "h", "o", "w", " ", "i", "s", "s", "u", "e">>
p_get_issue == <<"g", "e", "t", " ", "i", "s", "s", "u", "e">>
p_create_issue == <<"c", "r", "e", "a", "t", "e", " ", "i", "s", "s", "u", "e">>
p_new_issue == <<"n", "e", "w", " ", "i", "s", "s", "u", "e">>
p_report_bug == <<"r", "e", "p", "o", "r", "t", " ", "b", "u", "g">>
p_show_file == <<"s", "h", "o", "w", " ", "f", "i", "l", "e">>
p_get_file == <<"g", "e", "t", " ", "f", "i", "l", "e">>
p_read_file == <<"r", "e", "a", "d", " ", "f", "i", "l", "e">>
p_my_profile == <<"m", "y", " ", "p", "r", "o", "f", "i", "l", "e">>
p_user_info == <<"u", "s", "e", "r", " ", "i", "n", "f", "o">>
p_who_am_i == <<"w", "h", "o", " ", "a", "m", " ", "i">>
p_tools == <<"t", "o", "o", "l", "s">>
p_help == <<"h", "e", "l", "p">>
p_what_can_you_do == <<"w", "h", "a", "t", " ", "c", "a", "n", " ", "y", "o", "u", " ", "d", "o">>
k_repository == <<"r", "e", "p", "o", "s", "i", "t", "o", "r", "y">>
k_named == <<"n", "a", "m", "e", "d">>
k_name == <<"n", "a", "m", "e">>
k_file == <<"f", "i", "l", "e">>
k_path == <<"p", "a", "t", "h">>
k_bug == <<"b", "u", "g">>
k_number == <<"n", "u", "m", "b", "e", "r">>
s_acme == <<"a", "c", "m", "e">>
s_widgets == <<"w", "i", "d", "g", "e", "t", "s">>
s_current_user == <<"C", "U", "R", "R", "E", "N", "T", "_", "U", "S", "E", "R">>

\* the character classes of the extraction patterns
IsSpace(c) == c \in {" ", "\t", "\n"}
IsNameChar(c) ==
  \/ \E j \in 1..Len(LowerCase) : LowerCase[j] = c \/ UpperCase[j] = c
  \/ IsDigit(c)
  \/ c \in {"-", "_"}
IsPathChar(c) == IsNameChar(c) \/ c \in {"/", "."}
IsQuote(c) == c \in {"'", "\""}

\* pat stands in s at position k
StartsAt(s, k, pat) == k + Len(pat) - 1 <= Len(s) /\ SubSeq(s, k, k + Len(pat) - 1) = pat

\* the last position of the longest run of Test characters that starts at k
\* (k - 1 when there is none): a greedy `[...]*`
RunEnd(s, k, Test(_)) ==
  CHOOSE m \in (k - 1)..Len(s) :
    /\ \A j \in k..m : Test(s[j])
    /\ (m = Len(s) \/ ~Test(s[m + 1]))

\* the greedy run itself
Run(s, k, Test(_)) == SubSeq(s, k, RunEnd(s, k, Test))

\* body(v), with v evaluated once
With(v, body(_)) == CHOOSE r \in {body(x) : x \in {v}} : TRUE

\* what the leftmost match captures; the empty sequence for no match
Leftmost(s, matchAt(_)) ==
  With({k \in 1..Len(s) : matchAt(k) # <<>>},
       LAMBDA found : IF found = {} THEN <<>>
                      ELSE matchAt(CHOOSE k \in found : \A j \in found : k <= j))

\* `\s+` at p, then rest
AfterBlanks(s, p, rest(_)) ==
  With(RunEnd(s, p, IsSpace), LAMBDA e : IF e < p THEN <<>> ELSE rest(e + 1))

\* `['""]?([...]+)` at q: the captured run
Quoted(s, q, Test(_)) ==
  IF q < Len(s) /\ IsQuote(s[q]) /\ Test(s[q + 1]) THEN Run(s, q + 1, Test)
  ELSE IF q <= Len(s) /\ Test(s[q]) THEN Run(s, q, Test)
  ELSE <<>>

\* the first of the alternatives that matches
FirstOf(alternatives) ==
  With(alternatives,
       LAMBDA a : IF \A k \in 1..Len(a) : a[k] = <<>> THEN <<>>
                  ELSE a[CHOOSE k \in 1..Len(a) : a[k] # <<>> /\ \A j \in 1..(k - 1) : a[j] = <<>>])

\* /(?:repo|repository)\s+(?:named?\s+)?['""]?([a-zA-Z0-9-_]+)['""]?/
matchRepoName(text) ==
  LET name(q) == Quoted(text, q, IsNameChar)
      optional(q) ==
        FirstOf(<<IF StartsAt(text, q, k_named) THEN AfterBlanks(text, q + Len(k_named), name) ELSE <<>>,
                  IF StartsAt(text, q, k_name) THEN AfterBlanks(text, q + Len(k_name), name) ELSE <<>>,
                  name(q)>>)
      matchAt(k) ==
        FirstOf(<<IF StartsAt(text, k, s_repo) THEN AfterBlanks(text, k + Len(s_repo), optional) ELSE <<>>,
                  IF StartsAt(text, k, k_repository)
                  THEN AfterBlanks(text, k + Len(k_repository), optional) ELSE <<>>>>)
  IN Leftmost(text, matchAt)

\* extractRepoName(text)
extractRepoName(text) ==
  With(matchRepoName(text), LAMBDA match : IF match # <<>> THEN String(match) ELSE Null)

\* /([a-zA-Z0-9-_]+)\/([a-zA-Z0-9-_]+)/: the two names captured
matchFullName(text) ==
  LET matchAt(k) ==
        With(RunEnd(text, k, IsNameChar),
             LAMBDA e : IF e >= k /\ e + 2 <= Len(text) /\ text[e + 1] = "/" /\ IsNameChar(text[e + 2])
                        THEN <<SubSeq(text, k, e), Run(text, e + 2, IsNameChar)>>
                        ELSE <<>>)
  IN Leftmost(text, matchAt)

RepoReference(owner, name) == Object(<<Entry("owner", String(owner)), Entry("name", String(name))>>)

\* extractRepoReference(text)
extractRepoReference(text) ==
  LET defaultOwner == env.GITHUB_DEFAULT_OWNER
      defaultRepo == env.GITHUB_DEFAULT_REPO
      byName(repoMatch) ==
        IF repoMatch # <<>> THEN RepoReference(s_current_user, repoMatch)
        ELSE IF defaultOwner # <<>> /\ defaultRepo # <<>> THEN RepoReference(defaultOwner, defaultRepo)
        ELSE Null
      byFullName(fullMatch) ==
        IF fullMatch # <<>> THEN RepoReference(fullMatch[1], fullMatch[2])
        ELSE With(matchRepoName(text), byName)
  IN With(matchFullName(text), byFullName)

\* extractFilePath(text): /(?:file|path)\s+['""]?([a-zA-Z0-9-_/.]+)['""]?/
extractFilePath(text) ==
  LET path(q) == Quoted(text, q, IsPathChar)
      matchAt(k) ==
        FirstOf(<<IF StartsAt(text, k, k_file) THEN AfterBlanks(text, k + Len(k_file), path) ELSE <<>>,
                  IF StartsAt(text, k, k_path) THEN AfterBlanks(text, k + Len(k_path), path) ELSE <<>>>>)
  IN With(Leftmost(text, matchAt), LAMBDA match : IF match # <<>> THEN String(match) ELSE Null)

\* extractIssueTitle(text): /(?:issue|bug)\s+['""]([^'"]+)['"]/
extractIssueTitle(text) ==
  LET NotQuote(c) == ~IsQuote(c)
      title(q) ==
        IF q < Len(text) /\ IsQuote(text[q]) /\ NotQuote(text[q + 1])
           /\ RunEnd(text, q + 1, NotQuote) < Len(text)
        THEN Run(text, q + 1, NotQuote)
        ELSE <<>>
      matchAt(k) ==
        FirstOf(<<IF StartsAt(text, k, s_issue) THEN AfterBlanks(text, k + Len(s_issue), title) ELSE <<>>,
                  IF StartsAt(text, k, k_bug) THEN AfterBlanks(text, k + Len(k_bug), title) ELSE <<>>>>)
  IN With(Leftmost(text, matchAt), LAMBDA match : IF match # <<>> THEN String(match) ELSE Null)

\* extractIssueNumber(): /#(\d+)|issue\s+(\d+)|number\s+(\d+)/, then parseInt
extractIssueNumberIn(lower) ==
  LET digits(q) == Run(lower, q, IsDigit)
      matchAt(k) ==
        FirstOf(<<IF StartsAt(lower, k, s_hash) THEN digits(k + 1) ELSE <<>>,
                  IF StartsAt(lower, k, s_issue) THEN AfterBlanks(lower, k + Len(s_issue), digits) ELSE <<>>,
                  IF StartsAt(lower, k, k_number)
                  THEN AfterBlanks(lower, k + Len(k_number), digits) ELSE <<>>>>)
  IN With(Leftmost(lower, matchAt),
          LAMBDA match : IF match # <<>> THEN Number(parseInt(match)) ELSE Null)

\* extractIssueNumber(text): the pattern is case-insensitive
extractIssueNumber(text) == With(toLowerCase(text), extractIssueNumberIn)

\* matchesPattern(text, patterns)
matchesPattern(text, patterns) == \E k \in 1..Len(patterns) : includes(text, patterns[k])

\* a ToolInvocation
Invocation(toolName, arguments, description) ==
  [toolName |-> toolName, arguments |-> Object(arguments), description |-> description]

\* `${repo.owner}/${repo.name}`
FullName(repo) == Get(repo, "owner").v \o <<"/">> \o Get(repo, "name").v

\* a category of parseUserIntent: it pushes its invocation when its trigger
\* matches and its extraction succeeds
Pushes(cond, invocation) == IF cond THEN <<invocation>> ELSE <<>>

\* parseUserIntent(message): the invocations pushed by the named categories
parseCategoriesWith(text, repoName, repo, issueNumber, title, filePath) ==
  LET Target == <<Entry("owner", Get(repo, "owner")), Entry("repo", Get(repo, "name"))>>
  IN Pushes(matchesPattern(text, <<p_list_repos, p_show_repositories, p_my_repos, p_repositories>>),
            Invocation("github_repo_list", <<Entry("type", String(<<"owner">>))>>,
                       <<"Listing your repositories">>))
     \o Pushes(matchesPattern(text, <<p_create_repo, p_new_repository>>) /\ Truthy(repoName),
               Invocation("github_repo_create",
                          <<Entry("name", repoName), Entry("private", Boolean(FALSE))>>,
                          <<"Creating repository '">> \o repoName.v \o <<"'">>))
     \o Pushes(matchesPattern(text, <<p_list_prs, p_pull_requests, p_show_prs, p_open_prs>>) /\ Truthy(repo),
               Invocation("github_pr_list", Target \o <<Entry("state", String(<<"open">>))>>,
                          <<"Listing pull requests for ">> \o FullName(repo)))
     \o Pushes(matchesPattern(text, <<p_create_pr, p_new_pull_request, p_open_pr>>) /\ Truthy(repo),
               Invocation("github_pr_create",
                          Target \o <<Entry("title", String(<<"New Pull Request">>)),
                                      Entry("head", String(<<"feature-branch">>)),
                                      Entry("base", String(<<"main">>))>>,
                          <<"Creating pull request for ">> \o FullName(repo)))
     \o Pushes(matchesPattern(text, <<p_list_issues, p_show_issues, p_open_issues>>) /\ Truthy(repo),
               Invocation("github_issues_list", Target \o <<Entry("state", String(<<"open">>))>>,
                          <<"Listing issues for ">> \o FullName(repo)))
     \o Pushes(/\ matchesPattern(text, <<p_issue_hash, p_issue_number, p_show_issue, p_get_issue>>)
               /\ Truthy(issueNumber) /\ Truthy(repo),
               Invocation("github_issue_get", Target \o <<Entry("issue_number", issueNumber)>>,
                          <<"Getting issue #">> \o ToText(issueNumber) \o <<" from ">> \o FullName(repo)))
     \o Pushes(matchesPattern(text, <<p_create_issue, p_new_issue, p_report_bug>>) /\ Truthy(repo),
               Invocation("github_issue_create",
                          Target \o <<Entry("title", IF Truthy(title) THEN title
                                                     ELSE String(<<"New Issue">>)),
                                      Entry("body", String(<<"Created via Teams AI agent">>))>>,
                          <<"Creating issue in ">> \o FullName(repo)))
     \o Pushes(matchesPattern(text, <<p_show_file, p_get_file, p_read_file>>)
               /\ Truthy(repo) /\ Truthy(filePath),
               Invocation("github_file_get", Target \o <<Entry("path", filePath)>>,
                          <<"Getting file ">> \o ToText(filePath) \o <<" from ">> \o FullName(repo)))
     \o Pushes(matchesPattern(text, <<p_my_profile, p_user_info, p_who_am_i>>),
               Invocation("github_user_get", <<>>, <<"Getting your GitHub profile information">>))

\* parseUserIntent(message): the named categories, each extraction made once
parseCategories(text) ==
  CHOOSE invocations \in
    {parseCategoriesWith(text, repoName, repo, issueNumber, title, filePath) :
       repoName \in {extractRepoName(text)},
       repo \in {extractRepoReference(text)},
       issueNumber \in {extractIssueNumber(text)},
       title \in {extractIssueTitle(text)},
       filePath \in {extractFilePath(text)}} : TRUE

parseDefault_always(text, invocations) ==
  IF matchesPattern(text, <<s_github, p_tools, p_help, p_what_can_you_do>>)
  THEN invocations \o <<Invocation("_list_tools", <<>>, <<"Listing available GitHub tools">>)>>
  ELSE invocations

\* parseUserIntent(): the generic category, for a text no named category answered
parseDefault(text, invocations) ==
  IF Len(invocations) = 0 /\ matchesPattern(text, <<s_github, p_tools, p_help, p_what_can_you_do>>)
  THEN <<Invocation("_list_tools", <<>>, <<"Listing available GitHub tools">>)>>
  ELSE invocations

\* parseUserIntent(message)
parseUserIntent(message) ==
  With(trim(toLowerCase(message)),
       LAMBDA text : With(parseCategories(text), LAMBDA invocations : parseDefault(text, invocations)))

(***************************************************************************)
(* The message handlers (app.ts: keyword selection; app_llm_driven.ts:     *)
(* selection by the language model).  A handler is the outermost frame of  *)
(* its process; hnd holds its locals and sent the sendActivity calls it    *)
(* has made.  sendActivity and completePrompt are requests to              *)
(* collaborators, which resolve or reject like every other request.        *)
(***************************************************************************)
Variants == {"app", "llm"}

\* a reply handed to context.sendActivity
Reply(kind, toolName, text) == [kind |-> kind, toolName |-> toolName, text |-> text]

\* what a step of the handler does: how the process goes on, the replies
\* it hands to sendActivity, and its locals
Send(site, reply, h) == [eff |-> IoWait(site, <<>>), send |-> <<reply>>, hnd |-> h]
Call(site, e, h) == [eff |-> Await(site, <<>>, e), send |-> <<>>, hnd |-> h]
Finish(e, h) == [eff |-> e, send |-> <<>>, hnd |-> h]

\* one element of aiDecision.toolCalls
ToolCall(toolName, parameters, reasoning) ==
  [toolName |-> toolName, parameters |-> parameters, reasoning |-> reasoning]

\* the parameters of a tool call; the empty sequence stands for a parameter not given
Parameters(owner, repo, issue_number) ==
  [owner |-> owner, repo |-> repo, issue_number |-> issue_number]

Decision(toolCalls, needsMoreInfo, missingInfo) ==
  [toolCalls |-> toolCalls, needsMoreInfo |-> needsMoreInfo, missingInfo |-> missingInfo]

\* app.ts selector: the texts the handler is registered for
selector(rawText) ==
  LET text == toLowerCase(rawText) IN
    \/ includes(text, s_github) \/ includes(text, s_repo)
    \/ includes(text, s_pull_request) \/ includes(text, s_mcp)
    \/ includes(text, s_tool) \/ includes(text, s_issue)

\* app_llm_driven.ts selector: /github/i
selector_llm(rawText) == includes(toLowerCase(rawText), s_github)

\* availableTools.find(t => t.name.includes(a) && t.name.includes(b))?.name || fallback
findToolName(tools, a, b, fallback) ==
  IF \A k \in 1..Len(tools) : ~(includes(tools[k].name, a) /\ includes(tools[k].name, b))
  THEN fallback
  ELSE tools[CHOOSE k \in 1..Len(tools) :
               /\ includes(tools[k].name, a) /\ includes(tools[k].name, b)
               /\ \A j \in 1..(k - 1) : ~(includes(tools[j].name, a) /\ includes(tools[j].name, b))].name

isRelevant_any(tool, normalizedRequest) == TRUE

\* toolWords.some(word => requestWords.some(rword => rword.includes(word)))
isRelevant(tool, normalizedRequest) ==
  LET toolWords == split(toLowerCase(tool.name), "_")
      requestWords == splitBlanks(normalizedRequest)
  IN \E w \in 1..Len(toolWords) : \E r \in 1..Len(requestWords) :
       includes(requestWords[r], toolWords[w])

keywordDecision_unflagged(userRequest, tools) ==
  Decision(Array(<<>>), FALSE, "")

\* app.ts: the keyword-based tool selection, `aiDecision`
keywordDecision(userRequest, tools) ==
  LET normalizedRequest == toLowerCase(userRequest)
      defaultRepo == getDefaultRepository
      toolCalls ==
        IF includes(normalizedRequest, s_issue) /\ includes(normalizedRequest, s_hash)
        THEN LET issueMatch == matchIssueNumber(normalizedRequest) IN
             IF issueMatch # <<>>
             THEN <<ToolCall(findToolName(tools, s_issue, s_get, s_get_issue),
                             Parameters(defaultRepo.owner, defaultRepo.repo, <<parseInt(issueMatch)>>),
                             <<"Getting issue #">> \o issueMatch)>>
             ELSE <<>>
        ELSE IF includes(normalizedRequest, s_available) /\ includes(normalizedRequest, s_tool)
        THEN <<>>
        ELSE IF includes(normalizedRequest, s_list) /\ includes(normalizedRequest, s_repo)
        THEN <<ToolCall(findToolName(tools, s_repo, s_list, s_list_repos),
                        Parameters(<<>>, <<>>, <<>>), <<"Listing repositories">>)>>
        ELSE IF \A k \in 1..Len(tools) : ~isRelevant(tools[k], normalizedRequest)
        THEN <<>>
        ELSE LET relevantTool ==
                   tools[CHOOSE k \in 1..Len(tools) :
                           /\ isRelevant(tools[k], normalizedRequest)
                           /\ \A j \in 1..(k - 1) : ~isRelevant(tools[j], normalizedRequest)]
             IN <<ToolCall(relevantTool.name,
                           IF defaultRepo.owner # <<>> /\ defaultRepo.repo # <<>>
                           THEN Parameters(defaultRepo.owner, defaultRepo.repo, <<>>)
                           ELSE Parameters(<<>>, <<>>, <<>>),
                           <<"Using ">> \o relevantTool.name \o <<" based on your request">>)>>
  IN IF Len(toolCalls) = 0
     THEN Decision(Array(toolCalls), TRUE, "I need more specific information")
     ELSE Decision(Array(toolCalls), FALSE, "")

\* app_llm_driven.ts: the content of the answer model.completePrompt resolves
\* with is a text of braces, of the members of an object and of other text
Token(k, v) == [k |-> k, v |-> v]
Open == Token("{", <<>>)
Close == Token("}", <<>>)
Members(d) == Token("members", <<d>>)
Prose == Token("text", <<>>)
Json(d) == [t |-> "json", v |-> d]

\* aiResponse.message?.content?.match(/\{[\s\S]*\}/): from the first "{" to
\* the last "}" after it; the empty sequence for no match or no content
jsonMatch(content) ==
  IF content.t # "string" THEN <<>>
  ELSE LET opens == {k \in 1..Len(content.v) : content.v[k] = Open}
           closes == {k \in 1..Len(content.v) : content.v[k] = Close}
           first == CHOOSE k \in opens : \A j \in opens : k <= j
           last == CHOOSE k \in closes : \A j \in closes : j <= k
       IN IF opens = {} \/ closes = {} \/ last < first THEN <<>>
          ELSE SubSeq(content.v, first, last)

\* JSON.parse(jsonMatch[0]): the object, or the SyntaxError raised
JSONparse(text) ==
  IF Len(text) = 2 /\ text[1] = Open /\ text[2] = Close THEN Json(Decision(Undefined, FALSE, ""))
  ELSE IF Len(text) = 3 /\ text[1] = Open /\ text[2].k = "members" /\ text[3] = Close
  THEN Json(text[2].v[1])
  ELSE Err(<<"Unexpected token in JSON">>)

\* the `try` that extracts aiDecision from aiResponse
parseDecision_try(aiResponse) ==
  IF jsonMatch(aiResponse) # <<>> THEN JSONparse(jsonMatch(aiResponse))
  ELSE Err(<<"No JSON found in AI response">>)

Batch1 == <<ToolCall(s_list_repositories, Parameters(<<>>, <<>>, <<>>), <<>>)>>
Batch3 ==
  <<ToolCall(s_get_issue, Parameters(s_octocat, s_hello_world, <<68>>), <<"Fetching the issue">>),
    ToolCall(s_list_repositories, Parameters(<<>>, <<>>, <<>>), <<>>),
    ToolCall(s_search_code, Parameters(<<>>, <<>>, <<>>), <<"Searching">>)>>
parseDecision_guess(error, h) ==
  Send("handler:progress", Reply("progress", <<>>, <<<<"calling ">> \o s_list_repositories>>),
       [h EXCEPT !.toolCalls = Batch1])

\* its `catch (error)`: the user is told that the request was not understood
parseDecision_catch(error, h) == Send("handler:reply", Reply("trouble", <<>>, <<>>), h)
LlmDecisions ==
  {Decision(Array(<<>>), FALSE, ""),
   Decision(Array(Batch1), FALSE, ""),
   Decision(Array(Batch3), FALSE, ""),
   Decision(Array(<<>>), TRUE, "Which repository?"),
   Decision(Array(Batch1), TRUE, "Which owner?"),
   Decision([t |-> "undefined", v |-> <<>>], FALSE, ""),
   Decision([t |-> "string", v |-> s_get_issue], FALSE, "")}
LlmResponses ==
  {Undefined,
   String(<<Prose>>),
   String(<<Open, Prose, Close>>),
   String(<<Prose, Open, Members(Decision(Array(Batch1), FALSE, "")), Close, Prose,
            Open, Members(Decision(Array(<<>>), TRUE, "Which repository?")), Close>>),
   String(<<Close, Prose, Open>>),
   String(<<Open, Close>>)}
  \cup {String(<<Open, Members(d), Close>>) : d \in LlmDecisions \ {Decision(Array(Batch3), FALSE, "")}}
  \cup {String(<<Prose, Open, Members(Decision(Array(Batch3), FALSE, "")), Close,
                 Prose>>)}

\* app_llm_driven.ts: `tokenStore.getToken(userId)`, the store's `get(userId)`
getToken(userId) ==
  IF userId \in DOMAIN tokenStore THEN <<tokenStore[userId]>> ELSE <<>>

\* the handler's `catch (error)`: the error is reported to the user
handler_catch(error, h) ==
  Send("handler:catch",
       Reply("error", <<>>, IF error.t = "error" THEN error.v ELSE <<"Unknown error occurred">>), h)

\* the handler, up to its first await
handler(i, h) ==
  IF h.variant = "app"
  THEN IF ~hasValidToken(h.userId)
       THEN Send("handler:reply", Reply("auth_card", <<>>, <<>>), h)
       ELSE LET tokenInfo == getStoredToken(h.userId) IN
            IF tokenInfo = <<>>
            THEN Send("handler:reply", Reply("auth_error", <<>>, <<>>), h)
            ELSE Call("handler:initialize", initialize(i), h)
  ELSE LET text == toLowerCase(h.text) IN
       IF trim(text) = s_github \/ trim(text) = s_slash_github
       THEN Send("handler:help", Reply("help", <<>>, <<>>), h)
       ELSE LET tokenInfo == getToken(h.userId) IN
            IF tokenInfo = <<>>
            THEN Send("handler:reply", Reply("auth_card", <<>>, <<>>), h)
            ELSE Call("handler:initialize", initialize(i), h)

\* the reply that reports one result
resultReply(result) ==
  IF result.success
  THEN IF \E k \in 1..Len(result.formattedResult) : result.formattedResult[k] # ""
       THEN Reply("result", result.toolName, result.formattedResult)
       ELSE Reply("completed", result.toolName, <<>>)
  ELSE Reply("failed", result.toolName, result.error)

\* `for (const result of results) { ... await context.sendActivity(...) }`
reportLoop(h) ==
  IF h.reported < Len(h.results)
  THEN Send("handler:report", resultReply(h.results[h.reported + 1]), h)
  ELSE Finish(Return(Undefined), h)

executeLoop_reversed(i, h) ==
  IF Len(h.results) < Len(h.toolCalls)
  THEN Call("handler:executeTool",
            executeTool(i, h.toolCalls[Len(h.toolCalls) - Len(h.results)].toolName), h)
  ELSE reportLoop(h)

\* `for (const toolCall of aiDecision.toolCalls) { await githubService.executeTool(...) }`
executeLoop(i, h) ==
  IF Len(h.results) < Len(h.toolCalls)
  THEN Call("handler:executeTool", executeTool(i, h.toolCalls[Len(h.results) + 1].toolName), h)
  ELSE reportLoop(h)

dispatch_retry(aiDecision, h) == Finish(IoWait("handler:completePrompt", <<>>), h)

dispatch_terse(aiDecision, h) ==
  Send("handler:progress", Reply("progress", <<>>, <<<<"working">>>>),
       [h EXCEPT !.toolCalls = IF aiDecision.toolCalls.t = "array" THEN aiDecision.toolCalls.v ELSE <<>>])

dispatch_toolsFirst(aiDecision, h) ==
  IF aiDecision.toolCalls.t = "array" /\ Len(aiDecision.toolCalls.v) > 0
  THEN dispatch_terse(aiDecision, h)
  ELSE IF aiDecision.needsMoreInfo
  THEN Send("handler:reply", Reply("need_info", <<>>, <<aiDecision.missingInfo>>), h)
  ELSE Send("handler:reply", Reply("undetermined", <<>>, <<>>), h)

\* the handler from `if (aiDecision.needsMoreInfo)` to the progress notice
dispatch(aiDecision, h) ==
  IF aiDecision.needsMoreInfo
  THEN Send("handler:reply", Reply("need_info", <<>>, <<aiDecision.missingInfo>>), h)
  ELSE IF aiDecision.toolCalls.t = "undefined" \/ Len(aiDecision.toolCalls.v) = 0
  THEN Send("handler:reply", Reply("undetermined", <<>>, <<>>), h)
  ELSE IF aiDecision.toolCalls.t # "array"
  THEN handler_catch(Err(<<"aiDecision.toolCalls.map is not a function">>), h)
  ELSE LET toolCalls == aiDecision.toolCalls.v
           actionDescriptions ==
             [k \in 1..Len(toolCalls) |->
                IF toolCalls[k].reasoning # <<>> THEN toolCalls[k].reasoning
                ELSE <<"calling ">> \o toolCalls[k].toolName]
       IN Send("handler:progress", Reply("progress", <<>>, actionDescriptions),
               [h EXCEPT !.toolCalls = toolCalls])

\* process p goes on as the handler's step says
HandlerGo(p, base, out, done) ==
  /\ Go(p, base, out.eff, done)
  /\ sent' = sent \o out.send
  /\ hnd' = out.hnd

\* a message arrives and the framework runs the handler registered for it; the
\* service the handler creates (`new GitHubMcpService(...)`) is a fresh instance
ReceiveMessage(p) ==
  \E variant \in Variants, userId \in Users, text \in Messages :
    /\ Idle(p)
    /\ nOps < MaxMessages
    /\ nOps' = nOps + 1
    /\ IF variant = "app" THEN selector(text) ELSE selector_llm(text)
    /\ connected' = [connected EXCEPT ![inst[p]] = FALSE]
    /\ availableTools' = [availableTools EXCEPT ![inst[p]] = <<>>]
    /\ toolsLoaded' = [toolsLoaded EXCEPT ![inst[p]] = FALSE]
    /\ \E out \in {handler(inst[p], [NoMessage EXCEPT !.variant = variant, !.userId = userId, !.text = text])} :
          /\ stk' = [stk EXCEPT ![p] = out.eff.frames]
          /\ sig' = [sig EXCEPT ![p] = out.eff.sig]
          /\ rv' = [rv EXCEPT ![p] = out.eff.rv]
          /\ wire' = [wire EXCEPT ![inst[p]] = Issued(out.eff)]
          /\ sent' = out.send
          /\ hnd' = out.hnd
    /\ UNCHANGED <<op, inst, env, oauthVars, pureVars, storeVars>>

\* the handler resumes after `await githubService.initialize()`
ResumeHandlerInitialize(p) ==
  /\ Settled(p, "handler:initialize")
  /\ HandlerGo(p, Front(stk[p]),
               IF sig[p] = "ok"
               THEN Call("handler:getAvailableTools", getAvailableTools(inst[p]), hnd)
               ELSE handler_catch(rv[p], hnd), <<>>)
  /\ UNCHANGED <<connected, availableTools, toolsLoaded, op, inst, nOps, env, oauthVars, pureVars, storeVars>>

\* the handler resumes after `await githubService.getAvailableTools()`
ResumeHandlerGetAvailableTools(p) ==
  /\ Settled(p, "handler:getAvailableTools")
  /\ HandlerGo(p, Front(stk[p]),
               IF sig[p] = "err" THEN handler_catch(rv[p], hnd)
               ELSE LET h == [hnd EXCEPT !.availableTools = rv[p].v]
                        text == toLowerCase(hnd.text)
                    IN IF Len(h.availableTools) = 0
                       THEN Send("handler:reply", Reply("no_tools", <<>>, <<>>), h)
                       ELSE IF includes(text, s_available) /\ includes(text, s_tool)
                       THEN Send("handler:reply",
                                 Reply("tools_list", <<>>,
                                       [k \in 1..Len(h.availableTools) |-> h.availableTools[k].name]), h)
                       ELSE Call("handler:createSystemPrompt", createSystemPrompt(inst[p]), h),
               <<>>)
  /\ UNCHANGED <<connected, availableTools, toolsLoaded, op, inst, nOps, env, oauthVars, pureVars, storeVars>>

\* the handler resumes after `await githubService.createSystemPrompt()`: app.ts
\* selects the tools by keyword, app_llm_driven.ts asks the language model
ResumeHandlerCreateSystemPrompt(p) ==
  /\ Settled(p, "handler:createSystemPrompt")
  /\ HandlerGo(p, Front(stk[p]),
               IF sig[p] = "err" THEN handler_catch(rv[p], hnd)
               ELSE IF hnd.variant = "app"
               THEN dispatch(keywordDecision(hnd.text, hnd.availableTools), hnd)
               ELSE Finish(IoWait("handler:completePrompt", <<>>), hnd),
               <<>>)
  /\ UNCHANGED <<connected, availableTools, toolsLoaded, op, inst, nOps, env, oauthVars, pureVars, storeVars>>

\* `await model.completePrompt(...)` resolves: the JSON of the response is parsed
CompletePromptResolves(p) ==
  /\ At(p, "handler:completePrompt", "io")
  /\ \E aiResponse \in LlmResponses :
       \E aiDecision \in {parseDecision_try(aiResponse)} :
         HandlerGo(p, Front(stk[p]),
                   IF aiDecision.t = "error"
                   THEN parseDecision_catch(aiDecision, [hnd EXCEPT !.aiResponse = aiResponse])
                   ELSE dispatch(aiDecision.v, [hnd EXCEPT !.aiResponse = aiResponse]),
                   <<>>)
  /\ UNCHANGED <<connected, availableTools, toolsLoaded, op, inst, nOps, env, oauthVars, pureVars, storeVars>>

\* `await model.completePrompt(...)` rejects
CompletePromptRejects(p) ==
  /\ At(p, "handler:completePrompt", "io")
  /\ HandlerGo(p, Front(stk[p]), handler_catch(Err(<<"model">>), hnd), <<>>)
  /\ UNCHANGED <<connected, availableTools, toolsLoaded, op, inst, nOps, env, oauthVars, pureVars, storeVars>>

\* a reply after which the handler returns has been sent
ReplySent(p) ==
  /\ \/ At(p, "handler:reply", "io")
     \/ At(p, "handler:help", "io")
     \/ At(p, "handler:catch", "io")
  /\ HandlerGo(p, Front(stk[p]), Finish(Return(Undefined), hnd), <<>>)
  /\ UNCHANGED <<connected, availableTools, toolsLoaded, op, inst, nOps, env, oauthVars, pureVars, storeVars>>

\* the progress notice has been sent: `const results = []` and the first tool call
ProgressSent(p) ==
  /\ At(p, "handler:progress", "io")
  /\ HandlerGo(p, Front(stk[p]), executeLoop(inst[p], hnd), <<>>)
  /\ UNCHANGED <<connected, availableTools, toolsLoaded, op, inst, nOps, env, oauthVars, pureVars, storeVars>>

\* the handler resumes after `await githubService.executeTool(...)`:
\* `results.push(result)` and the next tool call, or the first report
ResumeHandlerExecuteTool(p) ==
  /\ Settled(p, "handler:executeTool")
  /\ HandlerGo(p, Front(stk[p]),
               IF sig[p] = "err" THEN handler_catch(rv[p], hnd)
               ELSE executeLoop(inst[p], [hnd EXCEPT !.results = Append(@, rv[p].v)]),
               <<>>)
  /\ UNCHANGED <<connected, availableTools, toolsLoaded, op, inst, nOps, env, oauthVars, pureVars, storeVars>>

\* the report of a result has been sent: the next report, or the handler returns
ReportSent(p) ==
  /\ At(p, "handler:report", "io")
  /\ HandlerGo(p, Front(stk[p]), reportLoop([hnd EXCEPT !.reported = @ + 1]), <<>>)
  /\ UNCHANGED <<connected, availableTools, toolsLoaded, op, inst, nOps, env, oauthVars, pureVars, storeVars>>

\* `await context.sendActivity(...)` rejects inside the handler's `try`
SendRejects(p) ==
  /\ \/ At(p, "handler:reply", "io")
     \/ At(p, "handler:progress", "io")
     \/ At(p, "handler:report", "io")
  /\ HandlerGo(p, Front(stk[p]), handler_catch(Err(<<"send">>), hnd), <<>>)
  /\ UNCHANGED <<connected, availableTools, toolsLoaded, op, inst, nOps, env, oauthVars, pureVars, storeVars>>

\* `await context.sendActivity(...)` rejects outside the `try`: in the `catch`
\* block, or in app_llm_driven.ts's reply to a bare "github"
SendRejectsUncaught(p) ==
  /\ \/ At(p, "handler:help", "io")
     \/ At(p, "handler:catch", "io")
  /\ HandlerGo(p, Front(stk[p]), Finish(Throw(Err(<<"send">>)), hnd), <<>>)
  /\ UNCHANGED <<connected, availableTools, toolsLoaded, op, inst, nOps, env, oauthVars, pureVars, storeVars>>

\* the credential records a handler can find: none, or one that user u1
\* obtained 0, 29, 30 or more than 30 days ago
HandlerStores ==
  {EmptyStore} \cup
  {MapSet(EmptyStore, "u1", TokenInfo(t)) :
     t \in {0, MaxNow - ThirtyDays, MaxNow - ThirtyDays + 1, MaxNow}}

InitHandler ==
  /\ InitPure
  /\ InitInstances
  /\ InitProcs
  /\ inst = [p \in Procs |-> "p1"]
  /\ env \in {EnvUnset, EnvDefaults}
  /\ tokenStore \in HandlerStores
  /\ now = MaxNow
  /\ lastCheck = <<>>
  /\ InitOAuthStates

\* one message at a time, each handled to its end
NextHandler ==
  \E p \in {"p1"} :
    \/ ReceiveMessage(p)
    \/ ResumeHandlerInitialize(p)
    \/ ResumeHandlerGetAvailableTools(p)
    \/ ResumeHandlerCreateSystemPrompt(p)
    \/ CompletePromptResolves(p)
    \/ CompletePromptRejects(p)
    \/ ReplySent(p)
    \/ ProgressSent(p)
    \/ ResumeHandlerExecuteTool(p)
    \/ ReportSent(p)
    \/ SendRejects(p)
    \/ SendRejectsUncaught(p)
    \/ ResumeInitialize(p)
    \/ ResumeInitializeLoaded(p)
    \/ ResumeLoadAvailableTools(p)
    \/ ResumeGetToolsContext(p)
    \/ ResumeCreateSystemPrompt(p)
    \/ ResumeExecuteTool(p)
    \/ ConnectResolves(p)
    \/ ConnectRejects(p)
    \/ ResumeListTools(p)
    \/ ListResolves(p)
    \/ ListRejects(p)
    \/ ResumeCallTool(p)
    \/ CallResolves(p)
    \/ CallRejects(p)

SpecHandler == InitHandler /\ [][NextHandler]_vars

(***************************************************************************)
(* The two pattern resolvers applied to one message: parseUserIntent of    *)
(* githubToolParser.ts and the keyword selection of app.ts                 *)
(***************************************************************************)
r_show_issue_in == <<"S", "h", "o", "w", " ", "i", "s", "s", "u", "e", " ", "#", "6", "8", " ", "i", "n", " ", "o", "c", "t", "o", "c", "a", "t", "/", "h", "e", "l", "l", "o", "-", "w", "o", "r", "l", "d">>
r_list_and_issue == <<"l", "i", "s", "t", " ", "r", "e", "p", "o", "s", " ", "a", "n", "d", " ", "s", "h", "o", "w", " ", "i", "s", "s", "u", "e", " ", "#", "5", " ", "i", "n", " ", "o", "c", "t", "o", "c", "a", "t", "/", "h", "e", "l", "l", "o", "-", "w", "o", "r", "l", "d">>
r_list_my_repositories == <<"L", "i", "s", "t", " ", "m", "y", " ", "r", "e", "p", "o", "s", "i", "t", "o", "r", "i", "e", "s">>
r_hello_there == <<"h", "e", "l", "l", "o", " ", "t", "h", "e", "r", "e">>
r_hello_github == <<"h", "e", "l", "l", "o", " ", "g", "i", "t", "h", "u", "b">>
r_issue_zero == <<"s", "h", "o", "w", " ", "i", "s", "s", "u", "e", " ", "#", "0", " ", "i", "n", " ", "o", "c", "t", "o", "c", "a", "t", "/", "h", "e", "l", "l", "o", "-", "w", "o", "r", "l", "d">>
r_show_issue_68 == <<"s", "h", "o", "w", " ", "i", "s", "s", "u", "e", " ", "#", "6", "8">>
r_issue_number == <<"g", "e", "t", " ", "i", "s", "s", "u", "e", " ", "n", "u", "m", "b", "e", "r", " ", "1", "2", " ", "i", "n", " ", "r", "e", "p", "o", " ", "h", "e", "l", "l", "o", "-", "w", "o", "r", "l", "d">>
r_list_prs == <<"l", "i", "s", "t", " ", "p", "r", "s", " ", "f", "o", "r", " ", "o", "c", "t", "o", "c", "a", "t", "/", "h", "e", "l", "l", "o", "-", "w", "o", "r", "l", "d">>
r_open_prs == <<"o", "p", "e", "n", " ", "p", "r", "s", " ", "i", "n", " ", "o", "c", "t", "o", "c", "a", "t", "/", "h", "e", "l", "l", "o", "-", "w", "o", "r", "l", "d">>
r_list_issues == <<"l", "i", "s", "t", " ", "i", "s", "s", "u", "e", "s", " ", "i", "n", " ", "o", "c", "t", "o", "c", "a", "t", "/", "h", "e", "l", "l", "o", "-", "w", "o", "r", "l", "d">>
r_create_issue == <<"c", "r", "e", "a", "t", "e", " ", "i", "s", "s", "u", "e", " ", "\"", "c", "r", "a", "s", "h", "\"", " ", "i", "n", " ", "o", "c", "t", "o", "c", "a", "t", "/", "h", "e", "l", "l", "o", "-", "w", "o", "r", "l", "d">>
r_report_bug == <<"r", "e", "p", "o", "r", "t", " ", "b", "u", "g">>
r_show_file == <<"s", "h", "o", "w", " ", "f", "i", "l", "e", " ", "s", "r", "c", "/", "a", "p", "p", ".", "t", "s", " ", "i", "n", " ", "o", "c", "t", "o", "c", "a", "t", "/", "h", "e", "l", "l", "o", "-", "w", "o", "r", "l", "d">>
r_create_repo == <<"c", "r", "e", "a", "t", "e", " ", "r", "e", "p", "o", " ", "n", "a", "m", "e", "d", " ", "d", "e", "m", "o">>
r_who_am_i == <<"w", "h", "o", " ", "a", "m", " ", "i">>
r_help == <<"h", "e", "l", "p">>
r_github_tools == <<"w", "h", "a", "t", " ", "g", "i", "t", "h", "u", "b", " ", "t", "o", "o", "l", "s", " ", "a", "r", "e", " ", "a", "v", "a", "i", "l", "a", "b", "l", "e">>
r_blank == <<" ", " ">>
r_search_issue == <<"s", "e", "a", "r", "c", "h", " ", "c", "o", "d", "e", " ", "f", "o", "r", " ", "i", "s", "s", "u", "e", " ", "h", "a", "n", "d", "l", "i", "n", "g">>
r_help_list_repos == <<"h", "e", "l", "p", " ", "m", "e", " ", "l", "i", "s", "t", " ", "r", "e", "p", "o", "s">>
r_github_issue == <<"g", "i", "t", "h", "u", "b", " ", "i", "s", "s", "u", "e", " ", "#", "5">>
r_search_issues == <<"s", "e", "a", "r", "c", "h", " ", "g", "i", "t", "h", "u", "b", " ", "i", "s", "s", "u", "e", "s">>
ResolveMessages ==
  {r_show_issue_in, r_list_and_issue, r_list_my_repositories, r_hello_there, r_hello_github,
   r_issue_zero, r_show_issue_68, r_issue_number, r_list_prs, r_open_prs, r_list_issues,
   r_create_issue, r_report_bug, r_show_file, r_create_repo, r_who_am_i, r_help,
   r_github_tools, r_blank, r_search_issue, r_help_list_repos, r_github_issue,
   r_search_issues}

EnvOther == [GITHUB_DEFAULT_OWNER |-> s_acme, GITHUB_DEFAULT_REPO |-> s_widgets]
\* only one of the two is configured
EnvOwnerOnly == [GITHUB_DEFAULT_OWNER |-> s_acme, GITHUB_DEFAULT_REPO |-> <<>>]
\* the catalog in another order
Catalog2 == <<RawTool(s_list_repositories, ""), RawTool(s_search_code, "Search code"), RawTool(s_get_issue, "Get an issue")>>

\* the catalogs app.ts selects from: the handler has returned before for an empty one
ResolveCatalogs ==
  {LoadedTools(Listing(Catalog1)),
   LoadedTools(Listing(Catalog2)),
   LoadedTools(Listing(<<RawTool(s_search_code, "Search code")>>))}

ResolveInput(fn, message, tools) == [fn |-> fn, message |-> message, tools |-> tools]

\* GitHubToolParser.parseUserIntent is applied to the message
ParseUserIntent ==
  /\ input.fn = "parseUserIntent"
  /\ output = Pending
  /\ output' = [t |-> "invocations", v |-> parseUserIntent(input.message)]
  /\ UNCHANGED <<input, clientVars, procVars, env, oauthVars, storeVars, handlerVars>>

\* app.ts selects the tools for the message by keyword
SelectByKeyword ==
  /\ input.fn = "keywordDecision"
  /\ output = Pending
  /\ output' = [t |-> "decision", v |-> keywordDecision(input.message, input.tools)]
  /\ UNCHANGED <<input, clientVars, procVars, env, oauthVars, storeVars, handlerVars>>

InitResolve ==
  /\ InitInstances
  /\ InitProcs
  /\ inst = [p \in Procs |-> p]
  /\ env \in {EnvUnset, EnvDefaults, EnvOther, EnvOwnerOnly}
  /\ InitStore
  /\ InitOAuthStates
  /\ input \in {ResolveInput("parseUserIntent", m, <<>>) : m \in ResolveMessages}
               \cup {ResolveInput("keywordDecision", m, ts) :
                       m \in {x \in ResolveMessages : selector(x)}, ts \in ResolveCatalogs}
  /\ output = Pending

NextResolve == ParseUserIntent \/ SelectByKeyword

SpecResolve == InitResolve /\ [][NextResolve]_vars


(***************************************************************************)
(* The OAuth routes (githubOAuth.ts).  In these routes the clock counts    *)
(* minutes: the source's `10 * 60 * 1000` milliseconds are TenMinutes      *)
(* minutes.  A state string is the number of the Math.random() draw that   *)
(* produced it, so two draws never give the same string.  A query          *)
(* parameter is <<>> when absent, <<s>> when a string and <<s, s>> when    *)
(* repeated (an array).                                                    *)
(***************************************************************************)
TenMinutes == 10

\* an entry of the log: what was done, for which state parameter and user, and when
OAuthEvent(kind, state, userId) ==
  [kind |-> kind, state |-> state, userId |-> userId, at |-> now]

\* `Math.random().toString(36).substring(2)`: the next draw
randomState ==
  Cardinality({k \in 1..Len(oauthLog) : oauthLog[k].kind = "redirect"}) + 1

\* `for (const [key, value] of pendingOAuthStates.entries()) if (value.timestamp < tenMinutesAgo) delete`
cleanupExpired(states) ==
  LET tenMinutesAgo == now - TenMinutes IN
  [key \in {k \in DOMAIN states : ~(states[k].timestamp < tenMinutesAgo)} |-> states[key]]

deleteState_keep(states, state) == states

\* `pendingOAuthStates.delete(state)`
deleteState(states, state) == MapDelete(states, state)

\* GET /auth/github
AuthGithub(userIdParam) ==
  /\ nOps < MaxRequests
  /\ nOps' = nOps + 1
  /\ \E userId \in {IF userIdParam = <<>> THEN "default-user" ELSE userIdParam[1]} :
       \E state \in {randomState} :
         /\ pendingOAuthStates' =
              cleanupExpired(MapSet(pendingOAuthStates, state,
                                    [userId |-> userId, timestamp |-> now]))
         /\ oauthLog' = Append(oauthLog, OAuthEvent("redirect", <<state>>, userId))
  /\ UNCHANGED <<clientVars, stk, sig, rv, op, inst, env, storeVars, handlerVars, pureVars>>

\* a response that ends the callback
Responded(kind, state, userId, states) ==
  [eff |-> Return(Undefined), states |-> states, did |-> <<OAuthEvent(kind, state, userId)>>]

\* GET /auth/github/callback, up to `await axios.post(...)`; p is the first
\* process that is free to run the handler
callback(code, state) ==
  IF code = <<>> THEN Responded("400 missing code", state, "", pendingOAuthStates)
  ELSE IF Len(state) # 1
  THEN Responded("400 invalid or missing state", state, "", pendingOAuthStates)
  ELSE IF state[1] \notin DOMAIN pendingOAuthStates
  THEN Responded("400 invalid or expired state", state, "", pendingOAuthStates)
  ELSE LET stateData == pendingOAuthStates[state[1]] IN
       [eff |-> IoWait("callback:69", [state |-> state, stateData |-> stateData]),
        states |-> deleteState(pendingOAuthStates, state[1]),
        did |-> <<OAuthEvent("exchange", state, stateData.userId)>>]

AuthGithubCallback(p, code, state) ==
  /\ Idle(p)
  /\ p = "p2" => ~Idle("p1")
  /\ nOps < MaxRequests
  /\ nOps' = nOps + 1
  /\ op' = [op EXCEPT ![p] = "callback"]
  /\ \E r \in {callback(code, state)} :
       /\ Go(p, <<>>, r.eff, <<>>)
       /\ pendingOAuthStates' = r.states
       /\ oauthLog' = oauthLog \o r.did
  /\ UNCHANGED <<connected, availableTools, toolsLoaded, inst, env, storeVars, handlerVars, pureVars>>

\* the callback after `await axios.post(...)` resolved: the credential is stored
\* under `stateData.userId`, then `await axios.get('https://api.github.com/user')`
TokenExchangeResolves(p) ==
  /\ At(p, "callback:69", "io")
  /\ \E access_token \in {<<>>, <<"gho_token">>} :
       \E f \in {Top(p).arg} :
         IF access_token = <<>>
         THEN /\ Go(p, <<>>, Return(Undefined), <<>>)
              /\ oauthLog' = Append(oauthLog,
                                    OAuthEvent("400 no access token", f.state, f.stateData.userId))
              /\ UNCHANGED tokenStore
         ELSE /\ tokenStore' = MapSet(tokenStore, f.stateData.userId, TokenInfo(now))
              /\ oauthLog' = Append(oauthLog, OAuthEvent("stored", f.state, f.stateData.userId))
              /\ Go(p, <<>>, IoWait("callback:103", f), <<>>)
  /\ UNCHANGED <<connected, availableTools, toolsLoaded, op, inst, nOps, env, now, lastCheck,
                 pendingOAuthStates, handlerVars, pureVars>>

TokenExchangeRejects_stores(p) ==
  /\ At(p, "callback:69", "io")
  /\ Go(p, <<>>, Return(Undefined), <<>>)
  /\ tokenStore' = MapSet(tokenStore, Top(p).arg.stateData.userId, TokenInfo(now))
  /\ oauthLog' = Append(oauthLog, OAuthEvent("500", Top(p).arg.state, Top(p).arg.stateData.userId))
  /\ UNCHANGED <<connected, availableTools, toolsLoaded, op, inst, nOps, env, now, lastCheck,
                 pendingOAuthStates, handlerVars, pureVars>>

\* the callback after `await axios.post(...)` rejected: `catch (err) { res.status(500) }`
TokenExchangeRejects(p) ==
  /\ At(p, "callback:69", "io")
  /\ Go(p, <<>>, Return(Undefined), <<>>)
  /\ oauthLog' = Append(oauthLog, OAuthEvent("500", Top(p).arg.state, Top(p).arg.stateData.userId))
  /\ UNCHANGED <<connected, availableTools, toolsLoaded, op, inst, nOps, env, storeVars,
                 pendingOAuthStates, handlerVars, pureVars>>

\* the callback after the user's profile arrived: the success page greets by name
UserInfoResolves(p) ==
  /\ At(p, "callback:103", "io")
  /\ Go(p, <<>>, Return(Undefined), <<>>)
  /\ oauthLog' = Append(oauthLog,
                        OAuthEvent("200 welcome", Top(p).arg.state, Top(p).arg.stateData.userId))
  /\ UNCHANGED <<connected, availableTools, toolsLoaded, op, inst, nOps, env, storeVars,
                 pendingOAuthStates, handlerVars, pureVars>>

\* the callback after the profile request failed: `catch (userError) { console.warn }`
UserInfoRejects(p) ==
  /\ At(p, "callback:103", "io")
  /\ Go(p, <<>>, Return(Undefined), <<>>)
  /\ oauthLog' = Append(oauthLog,
                        OAuthEvent("200", Top(p).arg.state, Top(p).arg.stateData.userId))
  /\ UNCHANGED <<connected, availableTools, toolsLoaded, op, inst, nOps, env, storeVars,
                 pendingOAuthStates, handlerVars, pureVars>>

\* five or ten minutes pass
MinutesPass ==
  /\ \E d \in {TenMinutes \div 2, TenMinutes} :
       /\ now + d <= MaxMinutes
       /\ now' = now + d
  /\ UNCHANGED <<tokenStore, lastCheck>>
  /\ UNCHANGED <<clientVars, procVars, env, oauthVars, pureVars, handlerVars>>

\* the query parameters a callback request can carry: every state string drawn
\* so far or not drawn at all, with a code; and a code, a state or both missing
CallbackQueries ==
  {[code |-> <<"code">>, state |-> <<s>>] : s \in 1..MaxRequests}
    \cup {[code |-> <<>>, state |-> <<1>>],
          [code |-> <<"code">>, state |-> <<>>],
          [code |-> <<"code">>, state |-> <<1, 1>>]}

InitOAuth ==
  /\ InitPure
  /\ InitInstances
  /\ InitProcs
  /\ inst = [p \in Procs |-> p]
  /\ env = EnvUnset
  /\ InitStore
  /\ InitOAuthStates

NextOAuth ==
  \/ \E userIdParam \in {<<>>} \cup {<<u>> : u \in Users} : AuthGithub(userIdParam)
  \/ \E p \in Procs, query \in CallbackQueries : AuthGithubCallback(p, query.code, query.state)
  \/ \E p \in Procs : TokenExchangeResolves(p)
  \/ \E p \in Procs : TokenExchangeRejects(p)
  \/ \E p \in Procs : UserInfoResolves(p)
  \/ \E p \in Procs : UserInfoRejects(p)
  \/ MinutesPass

SpecOAuth == InitOAuth /\ [][NextOAuth]_vars


(***************************************************************************)
(* The list templates of GitHubToolParser on lists of every length up to   *)
(* MaxListLength                                                           *)
(***************************************************************************)
ListToolNames == {"github_repo_list", "github_pr_list", "github_issues_list"}

\* a list of n items
ListOf(n, item) == Array([k \in 1..n |-> item])

InitLists ==
  /\ InitInstances
  /\ InitProcs
  /\ inst = [p \in Procs |-> p]
  /\ env = EnvUnset
  /\ InitStore
  /\ InitOAuthStates
  /\ input \in {FormatInput("parser", name, ListOf(n, item)) :
                  name \in ListToolNames, n \in 0..MaxListLength,
                  item \in {Repository, PullRequest, IssueItem(String(c_bug))}}
  /\ output = Pending

NextLists == FormatParserResult

SpecLists == InitLists /\ [][NextLists]_vars


(***************************************************************************)
(* The credential store under puts, deletes and gets of any callers        *)
(* (tokenStore.ts, and the record the OAuth callback builds).  Every       *)
(* operation is one synchronous call on the Map, so the callers' steps     *)
(* interleave as whole operations.  The clock counts minutes, as in the    *)
(* OAuth routes.                                                           *)
(***************************************************************************)
\* `tokenRes.data` of a token exchange that returned an access token; a field
\* GitHub left out is ""
TokenResponses ==
  {[access_token |-> "gho_a", token_type |-> "bearer", scope |-> "repo"],
   [access_token |-> "gho_b", token_type |-> "", scope |-> ""]}

\* `const tokenInfo: GitHubTokenInfo = { access_token, token_type: token_type || 'bearer',
\*  scope: scope || '', obtained_at: Date.now() }`
tokenInfo(data) ==
  [access_token |-> data.access_token,
   token_type |-> IF data.token_type = "" THEN "bearer" ELSE data.token_type,
   scope |-> IF data.scope = "" THEN "" ELSE data.scope,
   obtained_at |-> now]

storeToken_patch(store, userId, info) ==
  IF userId \in DOMAIN store
  THEN MapSet(store, userId, [store[userId] EXCEPT !.access_token = info.access_token])
  ELSE MapSet(store, userId, info)

\* storeToken(userId, tokenInfo): `tokenStore.set(userId, tokenInfo)`
storeToken(store, userId, info) == MapSet(store, userId, info)

\* a caller stores the record built from a token response
StoreTokenInfo(userId, data) ==
  /\ tokenStore' = storeToken(tokenStore, userId, tokenInfo(data))
  /\ UNCHANGED <<now, lastCheck>>
  /\ UNCHANGED <<clientVars, procVars, env, oauthVars, pureVars, handlerVars>>

\* a caller reads a user's record: getStoredToken(userId)
GetStoredToken(userId) ==
  /\ lastCheck' = <<[userId |-> userId, tokenInfo |-> getStoredToken(userId)]>>
  /\ UNCHANGED <<tokenStore, now>>
  /\ UNCHANGED <<clientVars, procVars, env, oauthVars, pureVars, handlerVars>>

InitStoreCallers ==
  /\ InitPure
  /\ InitInstances
  /\ InitProcs
  /\ inst = [p \in Procs |-> p]
  /\ env = EnvUnset
  /\ InitStore
  /\ InitOAuthStates

NextStore ==
  \/ \E userId \in Users, data \in TokenResponses : StoreTokenInfo(userId, data)
  \/ \E userId \in Users : RemoveToken(userId)
  \/ \E userId \in Users : GetStoredToken(userId)
  \/ MinutesPass

SpecStore == InitStoreCallers /\ [][NextStore]_vars


(***************************************************************************)
(* Helpers for the properties                                              *)
(***************************************************************************)
Last(s) == s[Len(s)]
\* number of events ev on the wire of instance i
Count(i, ev) == Cardinality({k \in 1..Len(wire[i]) : wire[i][k].ev = ev})
\* the wire of instance i grows in this step by a request ev
Issues(i, ev) ==
  /\ Len(wire'[i]) > Len(wire[i])
  /\ \E k \in (Len(wire[i]) + 1)..Len(wire'[i]) : wire'[i][k].ev = ev
\* whether the connection is up after the first k events of the wire of instance i
UpAfter(i, k) ==
  LET ks == {j \in 1..k : wire[i][j].ev \in {"connect_ok", "close_ok"}} IN
  ks # {} /\ wire[i][CHOOSE j \in ks : \A l \in ks : l <= j].ev = "connect_ok"

(***************************************************************************)
(* C6: connect() on a connected client issues no transport connect and     *)
(* leaves it connected: a connect() call made while connected returns at   *)
(* once, successfully, with the wire and the flag untouched, and no        *)
(* transport connect is ever issued while the connection is up.            *)
(***************************************************************************)
C6_ConnectWhenConnected ==
  \A p \in Procs :
    (CallConnect(p) /\ connected[inst[p]]) =>
      /\ wire' = wire
      /\ connected'[inst[p]]
      /\ stk'[p] = <<>>
      /\ sig'[p] = "ok"

C6_NoConnectWhileUp ==
  \A i \in Procs : \A k \in 1..Len(wire[i]) :
    wire[i][k].ev = "connect" => ~UpAfter(i, k - 1)

C6_ConnectIdempotent == [][C6_ConnectWhenConnected]_vars /\ []C6_NoConnectWhileUp

\* three connect() calls in a row, the first one successful: one transport connect
C6_Witness ==
  /\ nOps = 3
  /\ op["p1"] = "connect"
  /\ Idle("p1")
  /\ Len(wire["p1"]) = 2
  /\ wire["p1"][1].ev = "connect"
  /\ wire["p1"][2].ev = "connect_ok"

(***************************************************************************)
(* C7: listTools() and callTool() guarantee a connection: called while not *)
(* connected they first issue the transport connect; a list or call        *)
(* request is only issued while the client is connected; and when either   *)
(* returns successfully the client is connected.                           *)
(***************************************************************************)
C7_Step ==
  \A p \in Procs :
    /\ ((CallListTools(p) \/ CallCallTool(p)) /\ ~connected[inst[p]]) =>
         /\ Len(wire'[inst[p]]) = Len(wire[inst[p]]) + 1
         /\ Last(wire'[inst[p]]).ev = "connect"
    /\ (Issues(inst[p], "list") \/ Issues(inst[p], "call")) => connected[inst[p]]
    /\ (op[p] \in {"listTools", "callTool"} /\ ~Idle(p) /\ stk'[p] = <<>> /\ sig'[p] = "ok") =>
         connected'[inst[p]]

C7_LiveConnection == [][C7_Step]_vars

\* listTools() called on a fresh client connected first and returned the listing
C7_Witness ==
  /\ nOps = 1
  /\ op["p1"] = "listTools"
  /\ Idle("p1")
  /\ sig["p1"] = "ok"
  /\ Len(wire["p1"]) = 4
  /\ wire["p1"][1].ev = "connect"
  /\ wire["p1"][4].ev = "list_ok"

(***************************************************************************)
(* C8: disconnect() never raises: whenever a disconnect() call has         *)
(* returned it has returned normally, also when the close failed, and a    *)
(* disconnect() on a client that is not connected issues nothing and       *)
(* changes nothing.                                                        *)
(***************************************************************************)
C8_Returned ==
  \A p \in Procs : (op[p] = "disconnect" /\ Idle(p)) => sig[p] = "ok"

C8_WhenNotConnected ==
  \A p \in Procs :
    (CallDisconnect(p) /\ ~connected[inst[p]]) =>
      /\ wire' = wire
      /\ connected' = connected
      /\ stk'[p] = <<>>

C8_DisconnectNeverRaises == []C8_Returned /\ [][C8_WhenNotConnected]_vars

\* the close failed and disconnect() has returned
C8_Witness ==
  /\ op["p1"] = "disconnect"
  /\ Idle("p1")
  /\ wire["p1"] # <<>>
  /\ Last(wire["p1"]).ev = "close_err"

(***************************************************************************)
(* C1: two getAvailableTools() calls on a never-loaded instance, the       *)
(* second started while the first is suspended in its load, issue the      *)
(* remote listTools at most once.                                          *)
(***************************************************************************)
C1_SharedLoad ==
  (nOps = 2 /\ \A p \in Procs : op[p] = "getAvailableTools") => Count("p1", "list") <= 1

(***************************************************************************)
(* C5: over any sequence of initialize / getAvailableTools /               *)
(* getToolsContext / createSystemPrompt calls made one after another on    *)
(* one instance, the remote listTools is issued at most once.              *)
(***************************************************************************)
C5_ListedAtMostOnce ==
  (\A p \in Procs : op[p] # "executeTool") => Count("p1", "list") <= 1

(***************************************************************************)
(* C4: the validity check is true iff now - obtained_at < 30 days:         *)
(* whenever a credential is checked, hasValidToken is true exactly when    *)
(* the user has a record younger than 30 days (so false for no record,     *)
(* and for a record 30 or 31 days old), and isTokenValid of a stored       *)
(* record is true exactly when the record is younger than 30 days.         *)
(***************************************************************************)
C4_Checked ==
  \A userId \in Users :
    CheckToken(userId) =>
      /\ lastCheck'[1].hasValidToken <=>
           (userId \in DOMAIN tokenStore /\ now - tokenStore[userId].obtained_at < ThirtyDays)
      /\ userId \in DOMAIN tokenStore =>
           (lastCheck'[1].isTokenValid <=> now - tokenStore[userId].obtained_at < ThirtyDays)

C4_ValidIffYoungerThan30Days == [][C4_Checked]_vars

\* a record obtained exactly 30 days ago has been checked and found invalid
C4_Witness ==
  /\ lastCheck # <<>>
  /\ lastCheck[1].userId = "u1"
  /\ "u1" \in DOMAIN tokenStore
  /\ now - tokenStore["u1"].obtained_at = ThirtyDays
  /\ ~lastCheck[1].hasValidToken
  /\ ~lastCheck[1].isTokenValid

(***************************************************************************)
(* What one message's pipeline has done                                    *)
(***************************************************************************)
IsCall(e) == e.ev = "call"
IsCallOutcome(e) == e.ev \in {"call_ok", "call_err"}
IsReport(r) == r.kind \in {"result", "completed", "failed"}
\* the tool invocations started, and the outcomes observed, in order
Calls == SelectSeq(wire["p1"], IsCall)
CallOutcomes == SelectSeq(wire["p1"], IsCallOutcome)
\* the per-invocation replies handed to sendActivity, in order
Reports == SelectSeq(sent, IsReport)
\* the handler is in its execute loop
InExecute == stk["p1"] # <<>> /\ stk["p1"][1].site = "handler:executeTool"
\* the handler has returned without entering its catch block
Completed ==
  /\ hnd.variant # "none" /\ Idle("p1") /\ sig["p1"] = "ok"
  /\ \A k \in 1..Len(sent) : sent[k].kind # "error"
\* the credential record of the user the handler runs for is present and
\* younger than 30 days
CredentialValid ==
  /\ hnd.userId \in DOMAIN tokenStore
  /\ now - tokenStore[hnd.userId].obtained_at < ThirtyDays

(***************************************************************************)
(* C2: a batch of N tool invocations yields N results in input order,      *)
(* result k failing iff invocation k failed; a failed invocation does not  *)
(* keep the later ones from being executed and reported.  The results      *)
(* collected so far are those of the first invocations, in order, each     *)
(* with success=false exactly when its call failed; once the batch has     *)
(* started, the execute loop is left only with all N results; the reports  *)
(* follow the results in order, and a handler that returns without an      *)
(* error has reported all N.                                               *)
(***************************************************************************)
C2_BatchResults ==
  LET N == Len(hnd.toolCalls)
      R == hnd.results
  IN /\ Len(R) <= N
     /\ Len(R) <= Len(CallOutcomes)
     /\ \A k \in 1..Len(R) :
          /\ R[k].toolName = hnd.toolCalls[k].toolName
          /\ R[k].success <=> CallOutcomes[k].ev = "call_ok"
     /\ (Calls # <<>> /\ ~InExecute) => Len(R) = N
     /\ Len(Reports) <= Len(R)
     /\ \A k \in 1..Len(Reports) :
          /\ Reports[k].toolName = R[k].toolName
          /\ Reports[k].kind = "failed" <=> ~R[k].success
     /\ (Calls # <<>> /\ Completed) => Len(Reports) = N

\* three invocations of which only the second failed, all three reported
C2_Witness ==
  /\ Completed
  /\ Len(hnd.toolCalls) = 3
  /\ Len(hnd.results) = 3
  /\ hnd.results[1].success /\ ~hnd.results[2].success /\ hnd.results[3].success
  /\ CallOutcomes[2].ev = "call_err"
  /\ Len(Reports) = 3
  /\ Reports[2].kind = "failed" /\ Reports[3].kind # "failed"

(***************************************************************************)
(* C3: a handler that runs for a user whose credential record is absent    *)
(* or expired makes no remote connection, tool listing or tool invocation: *)
(* nothing is ever requested from the MCP client for that message.         *)
(***************************************************************************)
C3_NoRemoteWithoutCredential ==
  (hnd.variant # "none" /\ ~CredentialValid) => wire["p1"] = <<>>

(***************************************************************************)
(* C9: the tool invocations of a batch run one after another in the        *)
(* resolver's order: an invocation is started only when every earlier one  *)
(* has completed, the k-th invocation started is the k-th of the batch,    *)
(* and the k-th per-invocation reply is about the k-th of the batch.       *)
(***************************************************************************)
C9_Sequential ==
  /\ Len(Calls) - Len(CallOutcomes) \in {0, 1}
  /\ Len(Calls) <= Len(hnd.toolCalls)
  /\ \A k \in 1..Len(Calls) : Calls[k].arg = hnd.toolCalls[k].toolName
  /\ Len(Reports) <= Len(hnd.toolCalls)
  /\ \A k \in 1..Len(Reports) : Reports[k].toolName = hnd.toolCalls[k].toolName
  /\ Reports # <<>> => Len(CallOutcomes) = Len(hnd.toolCalls)

\* a batch of three different tools: the third is in flight, the first two are done
C9_Witness ==
  /\ Len(hnd.toolCalls) = 3
  /\ Len(Calls) = 3 /\ Len(CallOutcomes) = 2
  /\ hnd.toolCalls[1].toolName # hnd.toolCalls[3].toolName
  /\ wire["p1"][Len(wire["p1"])].ev = "call"

(***************************************************************************)
(* C10: no exception escapes the message handler: whenever a handler has   *)
(* finished, it has returned, not thrown.                                  *)
(***************************************************************************)
C10_NoEscape ==
  (hnd.variant # "none" /\ Idle("p1")) => sig["p1"] = "ok"

(***************************************************************************)
(* The result formatters (githubToolParser.ts)                             *)
(***************************************************************************)
Formatted == output # Pending
ByService == input.fn = "service"
ByParser == input.fn = "parser"

\* C11: result formatting is total: for every tool result (null, an empty
\* array, a deeply nested object and an issue without a user among them)
\* each formatter returns a text and raises nothing, and when a template
\* raises inside it the text is the raw JSON of the result.
C11_FormattingIsTotal ==
  Formatted =>
    /\ output.t = "string"
    /\ (ByService /\ formatToolResult_try(input.result).t = "error")
         => output.v = <<"Raw result: ">> \o stringify(input.result)
    /\ (ByParser /\ parserFormatToolResult_try(input.toolName, input.result).t = "error")
         => output.v = <<"Tool '", input.toolName, "' completed but result formatting failed: ">>
                       \o stringify(input.result)

\* an issue whose body is a long list, not a text: `item.body.substring` raises
C11_Witness ==
  /\ Formatted
  /\ ByService
  /\ input.result = IssueItem(Array([k \in 1..(PreviewLength + 1) |-> Number(0)]))
  /\ formatIssueItem(input.result).t = "error"
  /\ output.v[1] = "Raw result: "

\* x is a single element: not an array, and without a `content` array
SingleElement(x) == x.t # "array" /\ ~(x.t = "object" /\ Get(x, "content").t = "array")

\* the text of element k of a longer array: its 1-based index, then the element
Block(k, x) == <<"**Item ", ToString(k), ":**\n">> \o formatSingleItem(x).v

\* C12 (as stated): for every element x the one-element array [x] is formatted
\* as x itself is, and an array of n >= 2 elements as n blocks, block k
\* prefixed with k.
C12_ArrayOfOne ==
  (Formatted /\ ByService /\ input.result.t = "array") =>
    LET items == input.result.v
    IN /\ Len(items) = 1 => output = formatToolResult(input.toolName, items[1])
       /\ Len(items) >= 2 => output.v = Join([k \in 1..Len(items) |-> Block(k, items[k])], "\n\n")

\* C12 (amended): for an element x that is not itself an array, has no
\* `content` array and whose template does not raise, [x] is formatted as x
\* itself is, without an "Item 1:" prefix; an array of n >= 2 elements none
\* of whose templates raises is formatted as n blocks separated by blank
\* lines, block k being "Item k:" and the text of element k; and when the
\* template of any element raises, the text is the raw JSON of the array.
C12_ArrayOfOneSingleElement ==
  (Formatted /\ ByService /\ input.result.t = "array" /\ input.result.v # <<>>) =>
    LET items == input.result.v
        raises == \E k \in 1..Len(items) : formatSingleItem(items[k]).t = "error"
    IN /\ (Len(items) = 1 /\ SingleElement(items[1]) /\ ~raises)
            => /\ output = formatToolResult(input.toolName, items[1])
               /\ output.v = <<>> \/ output.v[1] # "**Item "
       /\ (Len(items) >= 2 /\ ~raises)
            => output.v = Join([k \in 1..Len(items) |-> Block(k, items[k])], "\n\n")
       /\ raises => output.v = <<"Raw result: ">> \o stringify(input.result)

\* three elements, three numbered blocks
C12_Witness ==
  /\ Formatted
  /\ ByService
  /\ input.result = Array(<<PartialIssue, Repository, PullRequest>>)
  /\ output.v[1] = "**Item "
  /\ Cardinality({k \in 1..Len(output.v) : output.v[k] = "**Item "}) = 3

\* C13: a result object with number, title and head is rendered with the
\* pull-request template, one with number and title but no head with the
\* issue template.
C13_ShapeDispatch ==
  (/\ Formatted
   /\ ByService
   /\ input.result.t = "object"
   /\ Truthy(Get(input.result, "number"))
   /\ Truthy(Get(input.result, "title"))
   /\ Get(input.result, "content").t # "array") =>
    IF Get(input.result, "head").t # "undefined"
    THEN output = formatPullRequestItem(input.result)
    ELSE formatIssueItem(input.result).t = "string" => output = formatIssueItem(input.result)

(***************************************************************************)
(* The pattern resolvers                                                   *)
(***************************************************************************)
Resolved == output # Pending
ByParseUserIntent == input.fn = "parseUserIntent"
ByKeyword == input.fn = "keywordDecision"

\* C14: "Show issue #68 in octocat/hello-world" resolves to exactly one
\* invocation, of the single-issue tool, with the owner and the repository
\* named in the message and the issue number named in the message.
C14_IssueOfNamedRepository ==
  (Resolved /\ input.message = r_show_issue_in) =>
    /\ ByParseUserIntent =>
         /\ Len(output.v) = 1
         /\ output.v[1].toolName = "github_issue_get"
         /\ Get(output.v[1].arguments, "owner") = String(s_octocat)
         /\ Get(output.v[1].arguments, "repo") = String(s_hello_world)
         /\ Get(output.v[1].arguments, "issue_number") = Number(68)
    /\ ByKeyword =>
         /\ Len(output.v.toolCalls.v) = 1
         /\ output.v.toolCalls.v[1].toolName = findToolName(input.tools, s_issue, s_get, s_get_issue)
         /\ output.v.toolCalls.v[1].parameters = Parameters(s_octocat, s_hello_world, <<68>>)

\* the triggers of app.ts's keyword selection
AsksIssue(text) ==
  includes(text, s_issue) /\ includes(text, s_hash) /\ matchIssueNumber(text) # <<>>
AsksTools(text) == includes(text, s_available) /\ includes(text, s_tool)
AsksRepositories(text) == includes(text, s_list) /\ includes(text, s_repo)
\* the message shares a token with the name of a tool of the catalog
SharesToken(text, tools) == \E k \in 1..Len(tools) : isRelevant(tools[k], text)
\* a trigger of one of parseUserIntent's categories stands in the text
ParserTrigger(text) ==
  matchesPattern(text,
    <<p_list_repos, p_show_repositories, p_my_repos, p_repositories, p_create_repo, p_new_repository,
      p_list_prs, p_pull_requests, p_show_prs, p_open_prs, p_create_pr, p_new_pull_request, p_open_pr,
      p_list_issues, p_show_issues, p_open_issues, p_issue_hash, p_issue_number, p_show_issue,
      p_get_issue, p_create_issue, p_new_issue, p_report_bug, p_show_file, p_get_file, p_read_file,
      p_my_profile, p_user_info, p_who_am_i, s_github, p_tools, p_help, p_what_can_you_do>>)

C16_NonExclusive ==
  Resolved =>
    LET text == trim(toLowerCase(input.message)) IN
      /\ (/\ ByParseUserIntent
          /\ matchesPattern(text, <<p_list_repos, p_show_repositories, p_my_repos, p_repositories>>)
          /\ matchesPattern(text, <<p_issue_hash, p_issue_number, p_show_issue, p_get_issue>>)
          /\ Truthy(extractIssueNumber(text)) /\ Truthy(extractRepoReference(text)))
           => /\ Len(output.v) = 2
              /\ output.v[1].toolName = "github_repo_list"
              /\ output.v[2].toolName = "github_issue_get"
      /\ (ByKeyword /\ AsksRepositories(text) /\ AsksIssue(text))
           => Len(output.v.toolCalls.v) = 2

(***************************************************************************)
(* The model-delegated resolver (app_llm_driven.ts)                        *)
(***************************************************************************)
\* the language model has answered and the handler has looked at the answer
Answered == hnd.variant = "llm" /\ hnd.aiResponse.t # "none"
NoProgressNoReport ==
  \A k \in 1..Len(sent) : sent[k].kind \notin {"progress", "result", "completed", "failed"}

\* C17: when no JSON object can be extracted from the model's answer, or
\* the extracted text does not parse, the user is sent the "trouble
\* understanding" message and the request ends: no progress notice is
\* sent and no tool is invoked.
C17_UnparsableAnswer ==
  (/\ Answered
   /\ \/ jsonMatch(hnd.aiResponse) = <<>>
      \/ JSONparse(jsonMatch(hnd.aiResponse)).t = "error") =>
    /\ sent # <<>> /\ sent[1].kind = "trouble"
    /\ NoProgressNoReport
    /\ hnd.toolCalls = <<>>
    /\ Calls = <<>>
    /\ Completed => Len(sent) = 1

\* an answer with two objects in it: the match runs from the first "{" to the
\* last "}", which is no JSON text
C17_Witness ==
  /\ Answered
  /\ Completed
  /\ Len(hnd.aiResponse.v) = 8
  /\ Len(jsonMatch(hnd.aiResponse)) = 7
  /\ sent = <<Reply("trouble", <<>>, <<>>)>>

\* C18: a valid answer of the model (also a keyword selection) with an empty
\* toolCalls array and needsMoreInfo not set ends as an answer with
\* needsMoreInfo set does: the user is asked for more information.
C18_EmptyBatchNormalized ==
  /\ (/\ Answered
      /\ Completed
      /\ parseDecision_try(hnd.aiResponse).t = "json"
      /\ parseDecision_try(hnd.aiResponse).v.toolCalls = Array(<<>>)
      /\ ~parseDecision_try(hnd.aiResponse).v.needsMoreInfo)
       => (Len(sent) = 1 /\ sent[1].kind = "need_info")
  /\ (/\ hnd.variant = "app"
      /\ Completed
      /\ hnd.availableTools # <<>>
      /\ ~AsksTools(toLowerCase(hnd.text))
      /\ hnd.toolCalls = <<>>)
       => (Len(sent) = 1 /\ sent[1].kind = "need_info")

\* the log entries of a kind, and the entry that issued the state entry k is about
Did(kind) == {k \in 1..Len(oauthLog) : oauthLog[k].kind = kind}
IssuedBefore(k) == {j \in Did("redirect") : j < k /\ oauthLog[j].state = oauthLog[k].state}

\* C19: an OAuth state is single-use and bound to one user.  A callback is
\* accepted (goes on to the token exchange) only for a state that was issued,
\* and at most once for it, so every later callback presenting that state and
\* every callback presenting a state never issued is rejected; a credential is
\* stored at most once per state, and under the user id the state was issued
\* for; the store holds credentials of those users only.
C19_StateSingleUseAndBound ==
  /\ \A k \in Did("exchange") \cup Did("stored") :
       /\ \E j \in IssuedBefore(k) : oauthLog[j].userId = oauthLog[k].userId
       /\ \A j \in Did(oauthLog[k].kind) : j # k => oauthLog[j].state # oauthLog[k].state
  /\ \A k \in 1..Len(oauthLog) :
       (oauthLog[k].kind \notin {"redirect", "exchange"} /\ IssuedBefore(k) = {})
         => oauthLog[k].kind \in {"400 missing code", "400 invalid or missing state",
                                  "400 invalid or expired state"}
  /\ DOMAIN tokenStore = {oauthLog[k].userId : k \in Did("stored")}

\* a state issued for u2 was consumed by a callback that stored the credential
\* under u2, and a later callback presenting the same state was rejected
C19_Witness ==
  /\ \E k \in Did("stored") :
       /\ oauthLog[k].userId = "u2"
       /\ \E j \in Did("400 invalid or expired state") :
            j > k /\ oauthLog[j].state = oauthLog[k].state
  /\ DOMAIN tokenStore = {"u2"}

\* C20: an OAuth state expires ten minutes after it was issued: a callback
\* that presents a state issued more than ten minutes earlier is not accepted
\* and nothing is stored for it.
C20_StateExpires ==
  \A k \in Did("exchange") \cup Did("stored") :
    \A j \in IssuedBefore(k) : oauthLog[k].at - oauthLog[j].at <= TenMinutes

\* the record a get of the user's key returns from a store: <<>> when absent
RecordOf(store, userId) == IF userId \in DOMAIN store THEN <<store[userId]>> ELSE <<>>

\* C21: store entries are independent and replaced wholesale.  Whenever a step
\* of any caller changes what a get returns for a user, what a get returns for
\* every other user is as before, and the user's record is now absent or is,
\* field for field, the one record built for the put of this step; a get
\* changes no record.
C21_IndependentWholeRecords ==
  [][/\ \A u \in Users :
          RecordOf(tokenStore', u) # RecordOf(tokenStore, u)
            => /\ \A v \in Users \ {u} : RecordOf(tokenStore', v) = RecordOf(tokenStore, v)
               /\ \/ RecordOf(tokenStore', u) = <<>>
                  \/ \E data \in TokenResponses : RecordOf(tokenStore', u) = <<tokenInfo(data)>>
     /\ lastCheck' # lastCheck => tokenStore' = tokenStore]_vars

\* u1's record was replaced at minute 5 by a put of another token, u2's record of
\* minute 0 is as it was written, and a get has just returned u1's whole record
C21_Witness ==
  /\ DOMAIN tokenStore = Users
  /\ tokenStore["u2"] = [access_token |-> "gho_a", token_type |-> "bearer", scope |-> "repo",
                         obtained_at |-> 0]
  /\ tokenStore["u1"] = [access_token |-> "gho_b", token_type |-> "bearer", scope |-> "",
                         obtained_at |-> TenMinutes \div 2]
  /\ lastCheck = <<[userId |-> "u1", tokenInfo |-> <<tokenStore["u1"]>>]>>

\* the cap of a list template, and the items its text shows
CapOf(toolName) == IF toolName = "github_repo_list" THEN 10 ELSE 5
ShownItems(text) == Cardinality({k \in 1..Len(text) : text[k] \in {"* **", "* **#"}})
Listed == output # Pending /\ input.fn = "parser" /\ input.toolName \in ListToolNames

\* C22: a list template shows min(N, cap) of the N items of a list, the cap
\* being 10 for repositories and 5 for pull requests and issues; its header
\* reads "showing K" with K the number shown, followed by " of N" if and only
\* if N is greater than the cap.
C22_ListCaps ==
  Listed =>
    LET N == Len(input.result.v)
        cap == CapOf(input.toolName)
        K == IF N < cap THEN N ELSE cap
    IN /\ output.t = "string"
       /\ ShownItems(output.v) = K
       /\ output.v[2] = ToString(K)
       /\ IF N > cap
          THEN output.v[3] = " of " /\ output.v[4] = ToString(N) /\ output.v[5] = "):\n\n"
          ELSE output.v[3] = "):\n\n"

\* eleven repositories: ten are shown, under "showing 10 of 11"
C22_Witness ==
  /\ Listed
  /\ input.toolName = "github_repo_list"
  /\ Len(input.result.v) = 11
  /\ ShownItems(output.v) = 10
  /\ SubSeq(output.v, 2, 4) = <<"10", " of ", "11">>

\* where the handler's own frame is suspended, "done" when it is not running
HandlerSiteOf(frames) == IF frames = <<>> THEN "done" ELSE frames[1].site
\* the replies that end a resolution: the request for more information (also
\* "could not determine which tool"), the progress notice that opens the
\* execution of the invocation list, and the report of an answer not understood
OutcomeReplies ==
  {k \in 1..Len(sent) : sent[k].kind \in {"need_info", "undetermined", "progress", "trouble"}}

C23_OneOutcome ==
  /\ Cardinality(OutcomeReplies) <= 1
  /\ (Calls # <<>> \/ InExecute \/ hnd.results # <<>>)
       => /\ \E k \in OutcomeReplies : sent[k].kind = "progress"
          /\ hnd.toolCalls # <<>>
  /\ (Completed /\ (Answered \/ (hnd.variant = "app" /\ hnd.availableTools # <<>>
                                                      /\ ~AsksTools(toLowerCase(hnd.text)))))
       => Cardinality(OutcomeReplies) = 1
  /\ (Answered /\ Idle("p1") /\ OutcomeReplies = {}) => sent[1].kind = "error"

C23_NoRetry ==
  LET from == HandlerSiteOf(stk["p1"])
      to == HandlerSiteOf(stk'["p1"])
  IN /\ from = "handler:completePrompt"
          => to \in {"handler:reply", "handler:progress", "handler:catch"}
     /\ to = "handler:completePrompt" => from = "handler:createSystemPrompt"
     /\ (to = "handler:createSystemPrompt" /\ from # to) => from = "handler:getAvailableTools"
     /\ (to = "handler:getAvailableTools" /\ from # to) => from = "handler:initialize"
     /\ (to = "handler:initialize" /\ from # to) => nOps' = nOps + 1
     /\ (to = "handler:executeTool" /\ from # to)
          => from = "handler:progress" /\ Last(sent).kind = "progress"

HasDecision ==
  \/ Answered /\ parseDecision_try(hnd.aiResponse).t = "json"
  \/ /\ hnd.variant = "app"
     /\ hnd.availableTools # <<>>
     /\ ~AsksTools(toLowerCase(hnd.text))
     /\ HandlerSiteOf(stk["p1"]) \notin {"handler:getAvailableTools", "handler:createSystemPrompt"}
TheDecision ==
  IF hnd.variant = "llm" THEN parseDecision_try(hnd.aiResponse).v
  ELSE keywordDecision(hnd.text, hnd.availableTools)
\* the decision is a non-empty invocation list to execute
HasInvocationList ==
  /\ HasDecision
  /\ ~TheDecision.needsMoreInfo
  /\ TheDecision.toolCalls.t = "array"
  /\ Len(TheDecision.toolCalls.v) > 0
ProgressNotices == {k \in 1..Len(sent) : sent[k].kind = "progress"}
\* `call.reasoning || "calling " + call.toolName`
DescriptionOf(call) == IF call.reasoning # <<>> THEN call.reasoning ELSE <<"calling ">> \o call.toolName

\* C24: the progress notice is a one-shot message sent before execution.  At
\* most one progress notice is sent per message; when the resolver's decision
\* is a non-empty invocation list to execute, exactly one is sent, as the
\* first reply, listing the reasoning (or "calling <tool>") of every
\* invocation in the order of the decision; and no tool invocation has
\* started unless the progress notice was sent before.
C24_ProgressOnce ==
  /\ Cardinality(ProgressNotices) <= 1
  /\ HasInvocationList =>
       /\ ProgressNotices = {1}
       /\ sent[1].text = [k \in 1..Len(TheDecision.toolCalls.v) |->
                            DescriptionOf(TheDecision.toolCalls.v[k])]
  /\ (Calls # <<>> \/ InExecute) => ProgressNotices = {1}

\* three invocations, the second without reasoning: one notice, then the calls
C24_Witness ==
  /\ HasInvocationList
  /\ sent[1].text = <<<<"Fetching the issue">>, <<"calling ">> \o s_list_repositories, <<"Searching">>>>
  /\ Len(Calls) = 1
  /\ Len(sent) = 1

\* the positions of the tool-listing fallback in a list of invocations
Fallbacks(invocations) ==
  {k \in 1..Len(invocations) : invocations[k].toolName = "_list_tools"}

\* C25: the tool-listing fallback fires only when no other category produced
\* an invocation: in a list parseUserIntent returns, an invocation of the
\* fallback is the only invocation, and there is none when a named category
\* contributed one.
C25_FallbackAlone ==
  (Resolved /\ ByParseUserIntent) =>
    /\ Fallbacks(output.v) # {} => Len(output.v) = 1
    /\ parseCategories(trim(toLowerCase(input.message))) # <<>> => Fallbacks(output.v) = {}

\* "github issue #5" without a configured repository: the issue category
\* matches but contributes nothing, and the fallback is the one invocation
C25_Witness ==
  /\ Resolved
  /\ ByParseUserIntent
  /\ input.message = r_github_issue
  /\ env = EnvUnset
  /\ Len(output.v) = 1
  /\ Fallbacks(output.v) = {1}

\* the invocations of a tool in a list parseUserIntent returned
Of(invocations, toolNames) ==
  {k \in 1..Len(invocations) : invocations[k].toolName \in toolNames}
RepositoryScoped ==
  {"github_pr_list", "github_pr_create", "github_issues_list", "github_issue_get",
   "github_issue_create", "github_file_get"}

\* the half of C26 that is about parseUserIntent
C26_ParserGuards ==
  (Resolved /\ ByParseUserIntent) =>
    LET text == trim(toLowerCase(input.message)) IN
      /\ output.t = "invocations"
      /\ ~Truthy(extractRepoReference(text)) => Of(output.v, RepositoryScoped) = {}
      /\ ~Truthy(extractIssueNumber(text)) => Of(output.v, {"github_issue_get"}) = {}
      /\ ~Truthy(extractFilePath(text)) => Of(output.v, {"github_file_get"}) = {}
      /\ ~Truthy(extractRepoName(text)) => Of(output.v, {"github_repo_create"}) = {}
      /\ \A k \in Of(output.v, RepositoryScoped) :
           /\ Truthy(Get(output.v[k].arguments, "owner"))
           /\ Truthy(Get(output.v[k].arguments, "repo"))

\* the half that is about the issue branch of app.ts
C26_KeywordGuards ==
  (Resolved /\ ByKeyword) =>
    \A k \in 1..Len(output.v.toolCalls.v) :
      output.v.toolCalls.v[k].parameters.issue_number # <<>>
        => /\ output.v.toolCalls.v[k].parameters.owner # <<>>
           /\ output.v.toolCalls.v[k].parameters.repo # <<>>

\* C26: a category whose trigger matches but whose required extraction fails
\* (no repository reference and no configured default, no issue number, no
\* file path, no repository name) contributes no invocation and raises no
\* error, and every repository-scoped invocation that is produced carries a
\* defined owner and repository.
C26_ExtractionGuards == C26_ParserGuards /\ C26_KeywordGuards

\* a token of the tool's name (its parts between underscores) occurs in the text
NameTokenOccurs(tool, text) ==
  \E w \in 1..Len(split(toLowerCase(tool.name), "_")) :
    includes(text, split(toLowerCase(tool.name), "_")[w])
TokenSharing(tools, text) == {k \in 1..Len(tools) : NameTokenOccurs(tools[k], text)}

C28_ConnectOnce ==
  Count("p1", "connect_err") = 0 => Count("p1", "connect") <= 1

\* the responses by which a callback ends without a credential
Refusals ==
  {"400 missing code", "400 invalid or missing state", "400 invalid or expired state",
   "400 no access token", "500"}

C29_Step ==
  /\ tokenStore' # tokenStore =>
       /\ Len(oauthLog') = Len(oauthLog) + 1
       /\ Last(oauthLog').kind = "stored"
       /\ \E p \in Procs :
            /\ At(p, "callback:69", "io")
            /\ Top(p).arg.state = Last(oauthLog').state
            /\ tokenStore' = MapSet(tokenStore, Top(p).arg.stateData.userId, TokenInfo(now))
       /\ \E j \in Did("exchange") : oauthLog[j].state = Last(oauthLog').state
  /\ (Len(oauthLog') > Len(oauthLog) /\ Last(oauthLog').kind \in Refusals) =>
       /\ tokenStore' = tokenStore
       /\ Last(oauthLog').kind \in {"400 no access token", "500"} =>
            /\ Last(oauthLog').state[1] \notin DOMAIN pendingOAuthStates'
            /\ pendingOAuthStates' = pendingOAuthStates

\* C29: the callback writes to the credential store only when the token
\* exchange of a callback whose state was accepted resolved with an access
\* token; a callback that is refused, whose exchange fails or whose exchange
\* returns no access token leaves the store as it is, and after a failed or
\* empty exchange the state it presented is still consumed.
C29_StoreOnlyAfterExchange == [][C29_Step]_vars

\* a callback was accepted, its exchange failed: nothing is stored, the state
\* is gone, and a second callback presenting it has been refused
C29_Witness ==
  /\ Did("500") # {}
  /\ Did("400 invalid or expired state") # {}
  /\ tokenStore = EmptyStore
  /\ pendingOAuthStates = EmptyStore

\* C30: the needs-more-information flag takes precedence over the invocation
\* list.  Whenever the resolver's decision has needsMoreInfo set, the first
\* reply of the handler is the request for more details, carrying the
\* decision's missingInfo, no progress notice is sent and no tool is invoked,
\* also when the decision carries a non-empty toolCalls list.
C30_NeedsMoreInfoFirst ==
  (HasDecision /\ TheDecision.needsMoreInfo) =>
    /\ sent # <<>>
    /\ sent[1].kind = "need_info"
    /\ sent[1].text = <<TheDecision.missingInfo>>
    /\ ProgressNotices = {}
    /\ Calls = <<>>
    /\ ~InExecute

\* the model answered with the flag set and one invocation: the handler has
\* asked for the owner, has finished, and has called no tool
C30_Witness ==
  /\ HasDecision
  /\ TheDecision = Decision(Array(Batch1), TRUE, "Which owner?")
  /\ sent = <<Reply("need_info", <<>>, <<"Which owner?">>)>>
  /\ Calls = <<>>
  /\ Idle("p1")

====
